---- MODULE Spec2Model ----
(***************************************************************************)
(* Verification model of docstring_to_text: the line parser and its        *)
(* matchers, Pass 1 (joining of raw blocks), Pass 2                        *)
(* (SpaceToTabsConverter.convert), the line formatter, the factory of      *)
(* bullet matchers, the construction of a converter with its pool of       *)
(* instances, and the pure helpers they use.                               *)
(*                                                                         *)
(* A ParsedLine is a record with the fields of the dataclass plus `id`,    *)
(* which stands for the identity of the Python object (lines are mutated   *)
(* in place and passed on by reference; id 0 is an object created by the   *)
(* pass itself).  A text, a bullet and a number are sequences of           *)
(* characters (one-character strings; a word of the text counts as one).   *)
(***************************************************************************)
EXTENDS Integers, Sequences, FiniteSets, TLC

VARIABLES
    pc,                   \* position of the running operation
    \* ---- Pass 1: DocstringToText.__pass1_join_raw_blocks
    parsed_text,          \* the argument (mutated in place by unindent)
    line_i,               \* position of the `for line in parsed_text` loop
    joined_blocks,
    pending_block,
    active_indent,
    active_block,
    is_after_empty_line,
    common_indent,
    p1_result,            \* the returned joined_blocks (<<>> until the return)
    \* ---- Pass 2: SpaceToTabsConverter.convert
    minimize_indents,
    tab_size,
    input_lines,
    output,
    pending_stack,
    last_step,            \* what the last iteration of the stack walk did
    \* ---- line parser: DocstringToText.__parse_line
    raw_line,
    parsed,
    \* ---- pure helpers applied to drawn inputs
    fn_in,
    fn_out,
    \* ---- the instance's out_bullets (<<>> is None), read by __format_line
    out_bullets,
    \* ---- construction: DocstringToText(...) and the pool of instances
    slots,                \* the build: dataclasses made with slots=True (Python >= 3.10)
    pool_deque,           \* __InstancePool.__pool_deque: instances, oldest first
    pool_dict,            \* __InstancePool.__pool_dict: pairs <<key, instance>>
    pool_reverse,         \* __InstancePool.__pool_reverse: <<instance, key, hash stored under>>
    instances,            \* the instance objects made so far, by identity 1, 2, ...
    ctor_args,            \* the arguments of the last call
    args_key,             \* what _ArgsKey.clean_key made of them
    ctor_result,          \* how the last call ended
    calls,                \* the number of calls made
    last_used,            \* history: the instances by their last lookup or adding, oldest first
    returned              \* history: pairs <<key, instance>> of the constructions that returned

vars == <<pc, parsed_text, line_i, joined_blocks, pending_block, active_indent,
          active_block, is_after_empty_line, common_indent, p1_result,
          minimize_indents, tab_size, input_lines, output, pending_stack, last_step,
          raw_line, parsed, fn_in, fn_out, out_bullets,
          slots, pool_deque, pool_dict, pool_reverse, instances, ctor_args, args_key,
          ctor_result, calls, last_used, returned>>

p1vars == <<parsed_text, line_i, joined_blocks, pending_block, active_indent,
            active_block, is_after_empty_line, common_indent, p1_result>>

p2vars == <<minimize_indents, tab_size, input_lines, output, pending_stack, last_step>>

parsevars == <<raw_line, parsed>>

fnvars == <<fn_in, fn_out, out_bullets>>

poolvars == <<pool_deque, pool_dict, pool_reverse, instances>>

ctorvars == <<slots, poolvars, ctor_args, args_key, ctor_result, calls, last_used, returned>>

---------------------------------------------------------------------------
(* Bounds of the model *)

P1MaxLines == 4

P1MaxIndent == 1

P2MaxLines == 3

P2MaxIndent == 2

MaxTabSize == 2

---------------------------------------------------------------------------
(* Small helpers on sequences and integers *)

Max(a, b) == IF a >= b THEN a ELSE b

Min(a, b) == IF a <= b THEN a ELSE b

RECURSIVE SetMin(_)
SetMin(S) ==
    LET x == CHOOSE y \in S : TRUE
    IN  IF S = {x} THEN x ELSE Min(x, SetMin(S \ {x}))

\* The word carried by the text of input line number i.
Word(i) == <<"a", "b", "c", "d", "e", "f", "g", "h">>[i]

---------------------------------------------------------------------------
(* BlockType and ParsedLine *)

BlockType_Indent == "Indent"

BlockType_Bullet == "Bullet"

BlockType_Number == "Number"

\* ParsedLine(indent, is_empty=True, is_list=False, list_level=-1, bullet='', number='', text='')
\* with __post_init__'s clamp of list_level.
ParsedLine(id, indent, is_empty, is_list, list_level, bullet, number, text) ==
    [id |-> id, indent |-> indent, is_empty |-> is_empty, is_list |-> is_list,
     list_level |-> Max(list_level, -1), bullet |-> bullet, number |-> number,
     text |-> text]

block_type(line) ==
    IF ~line.is_list THEN BlockType_Indent
    ELSE IF line.bullet # <<>> THEN BlockType_Bullet
    ELSE BlockType_Number

block_id(line) ==
    <<line.indent, line.is_empty, line.is_list, line.bullet # <<>>, line.number # <<>>>>

\* ParsedLine.offset_indent, applied to every line of the sequence.
offset_indent(lines, offset, clamp_negative) ==
    IF offset = 0 \/ lines = <<>> THEN lines
    ELSE [k \in 1..Len(lines) |->
            [lines[k] EXCEPT !.indent =
                IF clamp_negative THEN Max(lines[k].indent + offset, 0)
                ELSE lines[k].indent + offset]]

\* ParsedLine.unindent: the lines after the in-place mutation, and the returned indent.
unindent(lines, offset, clamp_negative) ==
    LET lines_with_text == {k \in 1..Len(lines) : ~lines[k].is_empty}
    IN  IF lines_with_text = {}
        THEN [lines |-> lines, common_indent |-> 0]
        ELSE LET common == SetMin({lines[k].indent : k \in lines_with_text})
             IN  [lines |-> offset_indent(lines, offset - common, TRUE),
                  common_indent |-> IF clamp_negative THEN Max(common, 0) ELSE common]

---------------------------------------------------------------------------
(* The well-formed lines the passes are given: an empty line has indent 0, *)
(* a list item has exactly one of bullet / number.                        *)

LineKinds == {"empty", "text", "bullet", "number"}

LineShapes(maxIndent) ==
    {[kind |-> "empty", indent |-> 0]}
    \cup [kind : {"text", "bullet", "number"}, indent : 0..maxIndent]

MkLine(i, shape) ==
    CASE shape.kind = "empty"  -> ParsedLine(i, 0, TRUE, FALSE, -1, <<>>, <<>>, <<>>)
      [] shape.kind = "text"   -> ParsedLine(i, shape.indent, FALSE, FALSE, -1, <<>>, <<>>, <<Word(i)>>)
      [] shape.kind = "bullet" -> ParsedLine(i, shape.indent, FALSE, TRUE, -1, <<"-">>, <<>>, <<Word(i)>>)
      [] shape.kind = "number" -> ParsedLine(i, shape.indent, FALSE, TRUE, -1, <<>>, <<"1", ".">>, <<Word(i)>>)

\* lines is one of the lists of at most maxLines well-formed lines; line i has id i.
IsInputLines(lines, maxLines, maxIndent) ==
    \E n \in 0..maxLines : \E f \in [1..n -> LineShapes(maxIndent)] :
        lines = [i \in 1..n |-> MkLine(i, f[i])]

---------------------------------------------------------------------------
(* Pass 1: DocstringToText.__pass1_join_raw_blocks *)

\* ' '.join(x.text for x in block)
RECURSIVE join_texts(_)
join_texts(block) ==
    IF block = <<>> THEN <<>>
    ELSE IF Len(block) = 1 THEN block[1].text
    ELSE block[1].text \o <<" ">> \o join_texts(Tail(block))

\* __flush_raw_active_block on the state record st = [joined, pending, ok]:
\* ok turns FALSE when the block-ID assertion fires.
flush_raw_active_block(st) ==
    IF st.pending = <<>> THEN st
    ELSE LET first == st.pending[1]
         IN  IF \E k \in 1..Len(st.pending) : block_id(st.pending[k]) # block_id(first)
             THEN [st EXCEPT !.ok = FALSE]
             ELSE IF first.is_list \/ first.is_empty
             THEN [st EXCEPT !.joined = st.joined \o st.pending, !.pending = <<>>]
             ELSE [st EXCEPT
                     !.joined = Append(st.joined,
                         ParsedLine(0, first.indent, FALSE, FALSE, -1, <<>>, <<>>,
                                    join_texts(st.pending))),
                     !.pending = <<>>]

\* Mutant of pass1_loop_body: a new block is started on a change of indent only.
pass1_loop_body_indent_only(st, line) ==
    IF line.is_empty
    THEN IF st.after
         THEN [st EXCEPT !.pending = Append(st.pending, line)]
         ELSE [flush_raw_active_block(st) EXCEPT !.after = TRUE]
    ELSE LET s1 == IF st.after
                   THEN [flush_raw_active_block(st) EXCEPT !.after = FALSE]
                   ELSE st
             s2 == IF ~(line.indent = s1.active_indent)
                   THEN [flush_raw_active_block(s1) EXCEPT
                           !.active_indent = line.indent,
                           !.active_block = block_type(line)]
                   ELSE s1
         IN  [s2 EXCEPT !.pending = Append(s2.pending, line)]

\* The body of `for line in parsed_text` for one line, on the record of the locals.
pass1_loop_body(st, line) ==
    IF line.is_empty
    THEN IF st.after
         THEN [st EXCEPT !.pending = Append(st.pending, line)]
         ELSE [flush_raw_active_block(st) EXCEPT !.after = TRUE]
    ELSE LET s1 == IF st.after
                   THEN [flush_raw_active_block(st) EXCEPT !.after = FALSE]
                   ELSE st
             s2 == IF ~(line.indent = s1.active_indent /\ block_type(line) = s1.active_block)
                   THEN [flush_raw_active_block(s1) EXCEPT
                           !.active_indent = line.indent,
                           !.active_block = block_type(line)]
                   ELSE s1
         IN  [s2 EXCEPT !.pending = Append(s2.pending, line)]

P1Locals ==
    [joined |-> joined_blocks, pending |-> pending_block, ok |-> TRUE,
     after |-> is_after_empty_line, active_indent |-> active_indent,
     active_block |-> active_block]

P1Idle ==
    /\ parsed_text = <<>> /\ line_i = 0 /\ joined_blocks = <<>> /\ pending_block = <<>>
    /\ active_indent = 0 /\ active_block = BlockType_Indent
    /\ is_after_empty_line = FALSE /\ common_indent = 0 /\ p1_result = <<>>

P2Idle ==
    /\ minimize_indents = TRUE /\ tab_size = 1 /\ input_lines = <<>>
    /\ output = <<>> /\ pending_stack = <<>> /\ last_step = "none"

ParseIdle == raw_line = <<>> /\ parsed = <<>>

FnIdle == fn_in = <<>> /\ fn_out = <<>> /\ out_bullets = <<>>

CtorIdle ==
    /\ slots = TRUE /\ pool_deque = <<>> /\ pool_dict = {} /\ pool_reverse = {}
    /\ instances = <<>> /\ ctor_args = <<>> /\ args_key = <<>> /\ ctor_result = <<>>
    /\ calls = 0 /\ last_used = <<>> /\ returned = {}

\* The call: parsed_text is any list of well-formed lines.
InitPass1 ==
    /\ pc = "p1_start"
    /\ IsInputLines(parsed_text, P1MaxLines, P1MaxIndent)
    /\ line_i = 0 /\ joined_blocks = <<>> /\ pending_block = <<>>
    /\ active_indent = 0 /\ active_block = BlockType_Indent
    /\ is_after_empty_line = FALSE /\ common_indent = 0 /\ p1_result = <<>>
    /\ P2Idle /\ ParseIdle /\ FnIdle /\ CtorIdle

\* common_indent = ParsedLine.unindent(parsed_text), then the locals are set up.
P1Unindent ==
    /\ pc = "p1_start"
    /\ LET u == unindent(parsed_text, 0, TRUE)
       IN  /\ parsed_text' = u.lines
           /\ common_indent' = u.common_indent
    /\ line_i' = 1
    /\ pc' = "p1_loop"
    /\ UNCHANGED <<joined_blocks, pending_block, active_indent, active_block,
                   is_after_empty_line, p1_result>>
    /\ UNCHANGED <<p2vars, parsevars, fnvars, ctorvars>>

\* One iteration of the loop; the assertion of the flush ends the call.
P1Iteration ==
    /\ pc = "p1_loop"
    /\ line_i <= Len(parsed_text)
    /\ LET st == pass1_loop_body(P1Locals, parsed_text[line_i])
       IN  /\ joined_blocks' = st.joined
           /\ pending_block' = st.pending
           /\ is_after_empty_line' = st.after
           /\ active_indent' = st.active_indent
           /\ active_block' = st.active_block
           /\ pc' = IF st.ok THEN "p1_loop" ELSE "p1_failed"
    /\ line_i' = line_i + 1
    /\ UNCHANGED <<parsed_text, common_indent, p1_result>>
    /\ UNCHANGED <<p2vars, parsevars, fnvars, ctorvars>>

\* `return common_indent, joined_blocks` right after the loop.
P1Return ==
    /\ pc = "p1_loop"
    /\ line_i > Len(parsed_text)
    /\ p1_result' = joined_blocks
    /\ pc' = "p1_done"
    /\ UNCHANGED <<parsed_text, line_i, joined_blocks, pending_block, active_indent,
                   active_block, is_after_empty_line, common_indent>>
    /\ UNCHANGED <<p2vars, parsevars, fnvars, ctorvars>>

NextPass1 == P1Unindent \/ P1Iteration \/ P1Return

SpecPass1 == InitPass1 /\ [][NextPass1]_vars

---------------------------------------------------------------------------
(* Pass 2: SpaceToTabsConverter.convert and its helpers *)

\* _StackLevelBlock(...)
StackLevelBlock(indent_spaces_abs, indent_spaces_rel, indent_tabs_abs, list_level, in_list, block_type_, pending_lines) ==
    [indent_spaces_abs |-> indent_spaces_abs, indent_spaces_rel |-> indent_spaces_rel,
     indent_tabs_abs |-> indent_tabs_abs, list_level |-> list_level,
     in_list |-> in_list, block_type |-> block_type_, pending_lines |-> pending_lines]

\* _FirstExtractedSubBlock(...)
FirstExtractedSubBlock(common_indent_, extracted_is_final, block_type_, extracted, pending) ==
    [common_indent |-> common_indent_, extracted_is_final |-> extracted_is_final,
     block_type |-> block_type_, extracted |-> extracted, pending |-> pending]

\* A pending line is the pre-classified tuple (block type, line).
LinesOf(chunk) == [k \in 1..Len(chunk) |-> chunk[k][2]]

\* __detect_first_line_with_min_indent: found = FALSE stands for (None, None).
detect_first_line_with_min_indent(pending_lines) ==
    LET real == {k \in 1..Len(pending_lines) : ~pending_lines[k][2].is_empty}
    IN  IF real = {} THEN [found |-> FALSE, min_indent |-> 0, line_index |-> 0]
        ELSE LET m == SetMin({pending_lines[k][2].indent : k \in real})
             IN  [found |-> TRUE, min_indent |-> m,
                  line_index |-> SetMin({k \in real : pending_lines[k][2].indent = m})]

\* The loop of the general case: the length of the first chunk.
RECURSIVE first_chunk_len(_, _, _)
first_chunk_len(pending_lines, k, first_real_line_type) ==
    IF k > Len(pending_lines) THEN Len(pending_lines)
    ELSE IF pending_lines[k][2].is_empty
            \/ (pending_lines[k][2].indent = 0 /\ pending_lines[k][1] = first_real_line_type)
    THEN first_chunk_len(pending_lines, k + 1, first_real_line_type)
    ELSE k - 1

extract_from_pending_block(pending_lines) ==
    IF pending_lines = <<>>
    THEN FirstExtractedSubBlock(0, TRUE, BlockType_Indent, <<>>, <<>>)
    ELSE LET d == detect_first_line_with_min_indent(pending_lines)
             i == d.line_index
         IN  IF ~d.found
             THEN FirstExtractedSubBlock(0, TRUE, BlockType_Indent, pending_lines, <<>>)
             ELSE LET first_real_line_type == pending_lines[i][1]
                      first_chunk == SubSeq(pending_lines, 1, i - 1)
                      n == first_chunk_len(pending_lines, 1, first_real_line_type)
                  IN  IF d.min_indent # 0
                      THEN FirstExtractedSubBlock(d.min_indent, FALSE, first_real_line_type,
                                                  pending_lines, <<>>)
                      ELSE IF i > 1 /\ \E k \in 1..(i-1) : ~first_chunk[k][2].is_empty
                      THEN FirstExtractedSubBlock(0, FALSE, first_real_line_type, first_chunk,
                                                  SubSeq(pending_lines, i, Len(pending_lines)))
                      ELSE FirstExtractedSubBlock(0, TRUE, first_real_line_type,
                                                  SubSeq(pending_lines, 1, n),
                                                  SubSeq(pending_lines, n + 1, Len(pending_lines)))

\* Mutant of binary_indent: the indent is kept instead of being reduced to 1.
binary_indent_keeps_spaces(indent_spaces) == IF indent_spaces > 0 THEN indent_spaces ELSE 0

binary_indent(indent_spaces) == IF indent_spaces > 0 THEN 1 ELSE 0

\* __common_block_spaces_to_tabs__round_full_tabs: int(float(d) / T + 0.4999) is
\* the floor of (10000 d + 4999 T) / (10000 T).
round_full_tabs(indent_spaces, T) ==
    IF indent_spaces < 1 THEN 0
    ELSE Max((10000 * indent_spaces + 4999 * T) \div (10000 * T), 1)

\* self._common_block_spaces_to_tabs, as __post_init__ selects it.
common_block_spaces_to_tabs(indent_spaces) ==
    IF minimize_indents THEN binary_indent(indent_spaces)
    ELSE round_full_tabs(indent_spaces, tab_size)

\* Mutant of detect_sub_block_list_level: a descent within a list adds one level,
\* whatever the tab delta is.
detect_sub_block_list_level_one_deeper(parent_block, child_type, child_indent) ==
    IF child_type \notin {BlockType_Indent, parent_block.in_list}
    THEN <<0, child_type>>
    ELSE IF parent_block.in_list = BlockType_Indent
    THEN <<-1, BlockType_Indent>>
    ELSE <<parent_block.list_level + Min(child_indent, 1), parent_block.in_list>>

\* __detect_sub_block_list_level: <<list_level, in_list>>.
detect_sub_block_list_level(parent_block, child_type, child_indent) ==
    IF child_type \notin {BlockType_Indent, parent_block.in_list}
    THEN <<0, child_type>>
    ELSE IF parent_block.in_list = BlockType_Indent
    THEN <<-1, BlockType_Indent>>
    ELSE <<parent_block.list_level + child_indent, parent_block.in_list>>

\* flush_to_output: the lines as they are appended to output.
flush_to_output(lines_list, tab_indent, list_level) ==
    [k \in 1..Len(lines_list) |->
        [lines_list[k] EXCEPT !.indent = tab_indent, !.list_level = list_level]]

\* offset_indent over the lines of a pre-classified chunk (in-place mutation).
offset_chunk(chunk, offset) ==
    LET moved == offset_indent(LinesOf(chunk), offset, TRUE)
    IN  [k \in 1..Len(chunk) |-> <<chunk[k][1], moved[k]>>]

ActiveBlock == pending_stack[Len(pending_stack)]

\* Mutant of Popped: the active block is read but left on the stack.
Popped_keeps_active == pending_stack

Popped == SubSeq(pending_stack, 1, Len(pending_stack) - 1)

Split == extract_from_pending_block(ActiveBlock.pending_lines)

\* One iteration of `while pending_stack` for the popped block: what it leaves.
\* ok = FALSE: an assertion of the loop fired.
convert_loop_body(active, rest) ==
    LET split == extract_from_pending_block(active.pending_lines)
    IN  IF active.pending_lines = <<>>
        THEN [ok |-> TRUE, step |-> "skip", stack |-> rest, emitted |-> <<>>]
        ELSE IF split.extracted_is_final
        THEN IF ~(split.common_indent = 0 /\ split.pending = <<>>)
             THEN [ok |-> FALSE, step |-> "assert", stack |-> rest, emitted |-> <<>>]
             ELSE LET lvl == detect_sub_block_list_level(active, split.block_type, 0)
                  IN  [ok |-> TRUE, step |-> "flush",
                       stack |-> IF split.pending # <<>>
                                 THEN Append(rest,
                                        [active EXCEPT
                                            !.list_level = lvl[1], !.in_list = lvl[2],
                                            !.block_type = split.block_type,
                                            !.pending_lines = split.pending])
                                 ELSE rest,
                       emitted |-> flush_to_output(LinesOf(split.extracted),
                                                   active.indent_tabs_abs,
                                                   active.list_level)]
        ELSE IF split.common_indent # 0
        THEN LET local_tab_offset == common_block_spaces_to_tabs(split.common_indent)
                 lvl == detect_sub_block_list_level(active, split.block_type,
                                                    local_tab_offset)
             IN  [ok |-> TRUE, step |-> "descend",
                  stack |-> Append(rest,
                      StackLevelBlock(active.indent_spaces_abs + split.common_indent,
                                      split.common_indent,
                                      active.indent_tabs_abs + local_tab_offset,
                                      lvl[1], lvl[2], split.block_type,
                                      offset_chunk(split.extracted, -split.common_indent))),
                  emitted |-> <<>>]
        ELSE LET block_type_ == split.pending[1][1]
                 lvl == detect_sub_block_list_level(active, block_type_, 0)
                 pending_parent_block ==
                     [active EXCEPT
                         !.list_level = lvl[1], !.in_list = lvl[2],
                         !.block_type = block_type_, !.pending_lines = split.pending]
                 sub == detect_sub_block_list_level(pending_parent_block, BlockType_Indent, 0)
                 sub_indented_first_block ==
                     [active EXCEPT
                         !.list_level = sub[1], !.in_list = sub[2],
                         !.block_type = BlockType_Indent, !.pending_lines = split.extracted]
             IN  [ok |-> TRUE, step |-> "split",
                  stack |-> rest \o <<pending_parent_block, sub_indented_first_block>>,
                  emitted |-> <<>>]

\* The call: a converter of any configuration, given any list of well-formed lines.
InitPass2 ==
    /\ pc = "p2_start"
    /\ IsInputLines(input_lines, P2MaxLines, P2MaxIndent)
    /\ minimize_indents \in BOOLEAN
    /\ tab_size \in 1..MaxTabSize
    /\ output = <<>> /\ pending_stack = <<>> /\ last_step = "none"
    /\ CtorIdle /\ P1Idle /\ ParseIdle /\ FnIdle

\* output = [], pending_stack = [the root block holding every line, pre-classified]
P2Start ==
    /\ pc = "p2_start"
    /\ pending_stack' = <<StackLevelBlock(0, 0, 0, -1, BlockType_Indent, BlockType_Indent,
                            [k \in 1..Len(input_lines) |->
                                <<block_type(input_lines[k]), input_lines[k]>>])>>
    /\ pc' = "p2_loop"
    /\ UNCHANGED <<minimize_indents, tab_size, input_lines, output, last_step>>
    /\ UNCHANGED <<p1vars, parsevars, fnvars, ctorvars>>

P2Iteration ==
    /\ pc = "p2_loop"
    /\ pending_stack # <<>>
    /\ LET r == convert_loop_body(ActiveBlock, Popped)
       IN  /\ pending_stack' = r.stack
           /\ output' = output \o r.emitted
           /\ last_step' = r.step
           /\ pc' = IF r.ok THEN "p2_loop" ELSE "p2_failed"
    /\ UNCHANGED <<minimize_indents, tab_size, input_lines>>
    /\ UNCHANGED <<p1vars, parsevars, fnvars, ctorvars>>

\* `return output` once the stack is empty.
P2Return ==
    /\ pc = "p2_loop"
    /\ pending_stack = <<>>
    /\ pc' = "p2_done"
    /\ UNCHANGED p2vars
    /\ UNCHANGED <<p1vars, parsevars, fnvars, ctorvars>>

NextPass2 == P2Start \/ P2Iteration \/ P2Return

SpecPass2 == InitPass2 /\ [][NextPass2]_vars

---------------------------------------------------------------------------
(* The line parser: DocstringToText.__parse_line and the regexes it uses.  *)
(* A raw line is a sequence of characters without line breaks.            *)

ParseMaxLen == 4

\* The characters of the model: a space and a tab (whitespace), a bullet glyph of
\* in_bullets that is also a separator of number prefixes, a bullet glyph that is
\* not, a digit, a Latin letter, and a separator that may end a number.
Chars == {" ", "\t", "-", "*", "1", "a", "."}

\* \s
Spaces == {" ", "\t"}

\* \d
Digits == {"1"}

\* [a-zA-Z]
Letters == {"a"}

\* the configured in_bullets
InBullets == {"-", "*"}

\* [_'`´,.:)~—–-]
PrefixSeparators == {"-", "."}

\* [.:)]
FinalSeparators == {"."}

IsSpace(c) == c \in Spaces

Strings(maxLen) == UNION {[1..n -> Chars] : n \in 0..maxLen}

\* str.rstrip()
RECURSIVE rstrip(_)
rstrip(s) ==
    IF s # <<>> /\ IsSpace(s[Len(s)]) THEN rstrip(SubSeq(s, 1, Len(s) - 1)) ELSE s

\* The end (last index, pos - 1 when empty) of the maximal run of characters
\* of the class that starts at index pos.
RunEnd(s, pos, class) ==
    LET stops == {k \in pos..Len(s) : s[k] \notin class}
    IN  IF stops = {} THEN Max(Len(s), pos - 1) ELSE SetMin(stops) - 1

\* _re_indent_match_: (\s*)(.*?)$  ->  <<indent_str, text>>
re_indent_match(s) ==
    LET e == RunEnd(s, 1, Spaces)
    IN  <<SubSeq(s, 1, e), SubSeq(s, e + 1, Len(s))>>

\* _re_indent_parse_: (\t*)([^\t]*)(.*?)$  ->  <<tabs_str, spaces_str, rest>>
re_indent_parse(s) ==
    LET t == RunEnd(s, 1, {"\t"})
        e == RunEnd(s, t + 1, Chars \ {"\t"})
    IN  <<SubSeq(s, 1, t), SubSeq(s, t + 1, e), SubSeq(s, e + 1, Len(s))>>

\* The `while indent_str` loop of __detect_indent.
RECURSIVE detect_indent_loop(_, _, _, _)
detect_indent_loop(indent_str, full_tabs, pending_spaces, T) ==
    IF indent_str = <<>> THEN full_tabs * T + pending_spaces
    ELSE LET m == re_indent_parse(indent_str)
         IN  detect_indent_loop(m[3],
                                full_tabs + Len(m[1]) + (Len(m[2]) \div T),
                                Len(m[2]) % T, T)

\* Mutant of detect_indent: a run of spaces before a tab counts for nothing.
detect_indent_voids_spaces(indent_str, T) ==
    LET tabs == {k \in 1..Len(indent_str) : indent_str[k] = "\t"}
        last == IF tabs = {} THEN 0 ELSE CHOOSE k \in tabs : \A j \in tabs : j <= k
    IN  Cardinality(tabs) * T + (Len(indent_str) - last)

detect_indent(indent_str, T) ==
    IF indent_str = <<>> THEN 0 ELSE detect_indent_loop(indent_str, 0, 0, T)

\* Mutant of re_bullet_match: the glyph run needs no whitespace after it.
re_bullet_match_no_space(s) ==
    LET g == Cardinality({k \in 1..Len(s) : \A j \in 1..k : s[j] \in InBullets})
        w == Cardinality({k \in (g + 1)..Len(s) : \A j \in (g + 1)..k : IsSpace(s[j])})
    IN  IF g >= 1
        THEN [matched |-> TRUE, bullet |-> SubSeq(s, 1, g),
              text |-> SubSeq(s, g + w + 1, Len(s))]
        ELSE [matched |-> FALSE, bullet |-> <<>>, text |-> <<>>]

\* The matcher built by _re_bullet_match_factory:
\* ([in_bullets]+)(?:\s+(.*?)|\s*)$  ->  [matched, bullet, text]
re_bullet_match(s) ==
    LET g == RunEnd(s, 1, InBullets)
        w == RunEnd(s, g + 1, Spaces)
    IN  IF g >= 1 /\ (w > g \/ g = Len(s))
        THEN [matched |-> TRUE, bullet |-> SubSeq(s, 1, g),
              text |-> SubSeq(s, w + 1, Len(s))]
        ELSE [matched |-> FALSE, bullet |-> <<>>, text |-> <<>>]

\* (?:\d+|[a-zA-Z]) at pos: its end, or 0 when it does not match.
NumeralEnd(s, pos) ==
    IF pos > Len(s) THEN 0
    ELSE IF s[pos] \in Digits THEN RunEnd(s, pos, Digits)
    ELSE IF s[pos] \in Letters THEN pos
    ELSE 0

\* Mutant of PartEnd: no whitespace is accepted in front of a part.
PartEnd_no_space(s, pos, separators) ==
    LET a == NumeralEnd(s, pos)
        e == IF a = 0 THEN 0 ELSE RunEnd(s, a + 1, separators)
    IN  IF a # 0 /\ e > a THEN e ELSE 0

\* \s*(?:\d+|[a-zA-Z])<separators>+ starting at pos: its end, or 0.
PartEnd(s, pos, separators) ==
    LET a == NumeralEnd(s, RunEnd(s, pos, Spaces) + 1)
        e == IF a = 0 THEN 0 ELSE RunEnd(s, a + 1, separators)
    IN  IF a # 0 /\ e > a THEN e ELSE 0

\* The first group of _re_number_match_ from pos on: the greedy repetition of
\* prefix parts, backed off part by part until the final part matches. Its end, or 0.
RECURSIVE NumberEnd(_, _)
NumberEnd(s, pos) ==
    LET p == PartEnd(s, pos, PrefixSeparators)
        viaPrefix == IF p = 0 THEN 0 ELSE NumberEnd(s, p + 1)
    IN  IF viaPrefix # 0 THEN viaPrefix ELSE PartEnd(s, pos, FinalSeparators)

\* _re_number_match_  ->  [matched, number, text]
re_number_match(s) ==
    LET e == NumberEnd(s, 1)
        w == RunEnd(s, e + 1, Spaces)
    IN  IF e # 0
        THEN [matched |-> TRUE, number |-> SubSeq(s, 1, e), text |-> SubSeq(s, w + 1, Len(s))]
        ELSE [matched |-> FALSE, number |-> <<>>, text |-> <<>>]

\* Mutant of parse_line: a numbered item is built without is_list (the default
\* of the dataclass is False).
parse_line_number_not_list(line, T) ==
    LET m == re_indent_match(rstrip(line))
        indent == detect_indent(m[1], T)
        b == re_bullet_match(m[2])
        n == re_number_match(m[2])
    IN  IF b.matched
        THEN ParsedLine(0, indent, FALSE, TRUE, -1, b.bullet, <<>>, b.text)
        ELSE IF n.matched
        THEN ParsedLine(0, indent, FALSE, FALSE, -1, <<>>, n.number, n.text)
        ELSE ParsedLine(0, indent, FALSE, FALSE, -1, <<>>, <<>>, m[2])

\* __parse_line. The ParsedLine built under `if not text:` (line 586) is not
\* returned, so the last return also serves the line without text.
parse_line(line, T) ==
    LET m == re_indent_match(rstrip(line))
        indent == detect_indent(m[1], T)
        b == re_bullet_match(m[2])
        n == re_number_match(m[2])
    IN  IF b.matched
        THEN ParsedLine(0, indent, FALSE, TRUE, -1, b.bullet, <<>>, b.text)
        ELSE IF n.matched
        THEN ParsedLine(0, indent, FALSE, TRUE, -1, <<>>, n.number, n.text)
        ELSE ParsedLine(0, indent, FALSE, FALSE, -1, <<>>, <<>>, m[2])

\* The call: a line of any characters, with any tab_size of the instance.
InitParse ==
    /\ pc = "parse_start"
    /\ raw_line \in Strings(ParseMaxLen)
    /\ tab_size \in 1..MaxTabSize
    /\ parsed = <<>>
    /\ minimize_indents = TRUE /\ input_lines = <<>>
    /\ output = <<>> /\ pending_stack = <<>> /\ last_step = "none"
    /\ CtorIdle /\ P1Idle /\ FnIdle

ParseLine ==
    /\ pc = "parse_start"
    /\ parsed' = <<parse_line(raw_line, tab_size)>>
    /\ pc' = "parse_done"
    /\ UNCHANGED <<raw_line, p1vars, p2vars, fnvars, ctorvars>>

NextParse == ParseLine

SpecParse == InitParse /\ [][NextParse]_vars

---------------------------------------------------------------------------
(* The matchers of list items, applied to a line of any characters *)

MatchMaxLen == 5

InitMatch ==
    /\ pc = "match_start"
    /\ fn_in \in {<<s>> : s \in Strings(MatchMaxLen)}
    /\ fn_out = <<>> /\ out_bullets = <<>>
    /\ CtorIdle /\ P1Idle /\ P2Idle /\ ParseIdle

\* self._re_bullet_match(text)
BulletMatch ==
    /\ pc = "match_start"
    /\ fn_out' = <<re_bullet_match(fn_in[1])>>
    /\ pc' = "bullet_matched"
    /\ UNCHANGED <<fn_in, out_bullets, p1vars, p2vars, parsevars, ctorvars>>

\* self._re_number_match(text)
NumberMatch ==
    /\ pc = "match_start"
    /\ fn_out' = <<re_number_match(fn_in[1])>>
    /\ pc' = "number_matched"
    /\ UNCHANGED <<fn_in, out_bullets, p1vars, p2vars, parsevars, ctorvars>>

NextMatch == BulletMatch \/ NumberMatch

SpecMatch == InitMatch /\ [][NextMatch]_vars

---------------------------------------------------------------------------
(* The rounding policy of minimize_indents = False, applied to drawn inputs *)

RoundMaxTabSize == 8

RoundMaxDelta == 24

\* The tab sizes drawn: the small ones, and one beyond the reach of the 0.4999
\* offset (tab_size has no upper limit: max(int(tab_size), 1)).
RoundTabSizes == (1..RoundMaxTabSize) \cup {5001}

RoundDeltas == (-2..RoundMaxDelta) \cup (7495..7510)

InitRound ==
    /\ pc = "round_start"
    /\ minimize_indents = FALSE
    /\ tab_size \in RoundTabSizes
    /\ fn_in \in {<<d>> : d \in RoundDeltas}
    /\ fn_out = <<>> /\ out_bullets = <<>>
    /\ input_lines = <<>> /\ output = <<>> /\ pending_stack = <<>> /\ last_step = "none"
    /\ CtorIdle /\ P1Idle /\ ParseIdle

\* self._common_block_spaces_to_tabs(indent_spaces)
RoundApply ==
    /\ pc = "round_start"
    /\ fn_out' = <<common_block_spaces_to_tabs(fn_in[1])>>
    /\ pc' = "round_done"
    /\ UNCHANGED <<fn_in, out_bullets, p1vars, p2vars, parsevars, ctorvars>>

NextRound == RoundApply

SpecRound == InitRound /\ [][NextRound]_vars

---------------------------------------------------------------------------
(* The factory of bullet matchers: _re_bullet_match_factory.  An argument   *)
(* is a record of its Python type and, for a str, list or tuple, its        *)
(* characters.  A built matcher is known by the glyphs of its class.        *)

FactoryMaxLen == 3

\* The characters of an argument: whitespace, ASCII letters and a digit, two
\* glyphs, and a letter that is not ASCII.
FactoryChars == {" ", "\t", "a", "Z", "1", "-", "*", "U+00E9"}

\* [a-zA-Z0-9]
AsciiAlnum == {"a", "Z", "1"}

FactoryStrings == UNION {[1..n -> FactoryChars] : n \in 0..FactoryMaxLen}

FactoryArgs ==
    {[type |-> t, value |-> v] : t \in {"str", "list", "tuple"}, v \in FactoryStrings}
    \cup {[type |-> t, value |-> <<>>] : t \in {"NoneType", "bool", "int"}}

\* _re_has_whitespaces
re_has_whitespaces(str) == \E k \in 1..Len(str) : IsSpace(str[k])

\* _re_has_alphanumeric
re_has_alphanumeric(str) == \E k \in 1..Len(str) : str[k] \in AsciiAlnum

\* The outcome of a call that raised / that returned the compiled matcher.
Raised(error) == [raised |-> error, built |-> FALSE, glyphs |-> {}]

Built(in_bullets) ==
    [raised |-> "none", built |-> TRUE, glyphs |-> {in_bullets[k] : k \in 1..Len(in_bullets)}]

\* Mutant of re_bullet_match_factory: whitespace in the argument is let through.
re_bullet_match_factory_no_space_check(in_bullets) ==
    IF in_bullets.type # "str" THEN Raised("TypeError")
    ELSE IF in_bullets.value = <<>> THEN Raised("ValueError")
    ELSE IF re_has_alphanumeric(in_bullets.value) THEN Raised("ValueError")
    ELSE Built(in_bullets.value)

\* _re_bullet_match_factory
re_bullet_match_factory(in_bullets) ==
    IF in_bullets.type # "str" THEN Raised("TypeError")
    ELSE IF in_bullets.value = <<>> THEN Raised("ValueError")
    ELSE IF re_has_whitespaces(in_bullets.value) THEN Raised("ValueError")
    ELSE IF re_has_alphanumeric(in_bullets.value) THEN Raised("ValueError")
    ELSE Built(in_bullets.value)

InitFactory ==
    /\ pc = "factory_start"
    /\ fn_in \in {<<a>> : a \in FactoryArgs}
    /\ fn_out = <<>> /\ out_bullets = <<>>
    /\ CtorIdle /\ P1Idle /\ P2Idle /\ ParseIdle

\* _re_bullet_match_factory(in_bullets)
FactoryCall ==
    /\ pc = "factory_start"
    /\ fn_out' = <<re_bullet_match_factory(fn_in[1])>>
    /\ pc' = "factory_done"
    /\ UNCHANGED <<fn_in, out_bullets, p1vars, p2vars, parsevars, ctorvars>>

NextFactory == FactoryCall

SpecFactory == InitFactory /\ [][NextFactory]_vars

---------------------------------------------------------------------------
(* The line formatter: DocstringToText.__format_line *)

FormatMaxTabSize == 3

FormatMaxIndent == 4

FormatMaxLevel == 3

\* __out_bullet_get__intact
out_bullet_get_intact(line, bullet_level) == line.bullet

\* Mutant of out_bullet_get_with_bullet_replacement: the level is not wrapped
\* around, levels beyond the set keep its last glyph.
out_bullet_get_last_glyph(line, bullet_level) ==
    <<out_bullets[Min(Max(bullet_level, 0) + 1, Len(out_bullets))]>>

\* __out_bullet_get__with_bullet_replacement, _out_bullets_n = len(out_bullets)
out_bullet_get_with_bullet_replacement(line, bullet_level) ==
    <<out_bullets[(bullet_level % Len(out_bullets)) + 1]>>

\* self._out_bullet_get, as __post_init__ selects it.
out_bullet_get(line, bullet_level) ==
    IF out_bullets # <<>> THEN out_bullet_get_with_bullet_replacement(line, bullet_level)
    ELSE out_bullet_get_intact(line, bullet_level)

\* int(float(max(line.indent, 0)) / self.tab_size + 0.50001): with d = q T + r it
\* is q, plus 1 when r / T >= 0.49999, that is when T - 2 r <= T / 50000.
indent_full_tabs(indent) ==
    LET d == Max(indent, 0)
        q == d \div tab_size
        r == d % tab_size
    IN  q + (IF tab_size - 2 * r <= tab_size \div 50000 THEN 1 ELSE 0)

\* __format_line: the rendered line as a sequence of characters.
format_line(line, bullet_level) ==
    LET indent_str == [k \in 1..indent_full_tabs(line.indent) |-> "\t"]
    IN  IF line.bullet # <<>>
        THEN indent_str \o out_bullet_get(line, bullet_level) \o <<" ">> \o line.text
        ELSE IF line.number # <<>>
        THEN indent_str \o line.number \o <<" ">> \o line.text
        ELSE indent_str \o line.text

\* The (tab_size, indent) pairs drawn: the small ones, and a tab size with
\* indents next to its half that the 0.50001 offset reaches.
FormatCases == ((1..FormatMaxTabSize) \X (-1..FormatMaxIndent)) \cup ({50001} \X (24999..25001))

\* The finalized lines drawn: an empty line, a text, bullet items and numbered
\* items with and without a text.
FormatLines(indent) ==
    {ParsedLine(1, indent, TRUE, FALSE, -1, <<>>, <<>>, <<>>),
     ParsedLine(1, indent, FALSE, FALSE, -1, <<>>, <<>>, <<"a">>)}
    \cup {ParsedLine(1, indent, FALSE, TRUE, lvl, b, <<>>, t) :
            lvl \in {0}, b \in {<<"-">>, <<"*", "*">>}, t \in {<<>>, <<"a">>}}
    \cup {ParsedLine(1, indent, FALSE, TRUE, lvl, <<>>, <<"1", ".">>, t) :
            lvl \in {0}, t \in {<<>>, <<"a">>}}

\* The configured out_bullets: none, or a set of one to three glyphs.
OutBulletSets == {<<>>, <<"o">>, <<"o", "x">>, <<"o", "x", "+">>}

InitFormat ==
    /\ pc = "format_start"
    /\ \E c \in FormatCases :
          /\ tab_size = c[1]
          /\ \E line \in FormatLines(c[2]) : \E bullet_level \in -1..FormatMaxLevel :
                fn_in = <<line, bullet_level>>
    /\ out_bullets \in OutBulletSets
    /\ fn_out = <<>>
    /\ minimize_indents = TRUE /\ input_lines = <<>>
    /\ output = <<>> /\ pending_stack = <<>> /\ last_step = "none"
    /\ CtorIdle /\ P1Idle /\ ParseIdle

\* self.__format_line(line, bullet_level)
FormatLine ==
    /\ pc = "format_start"
    /\ fn_out' = <<format_line(fn_in[1], fn_in[2])>>
    /\ pc' = "format_done"
    /\ UNCHANGED <<fn_in, out_bullets, p1vars, p2vars, parsevars, ctorvars>>

NextFormat == FormatLine

SpecFormat == InitFormat /\ [][NextFormat]_vars

---------------------------------------------------------------------------
(* Construction: DocstringToText(in_bullets=..., tab_size=...), the other   *)
(* arguments left at their defaults.  __new__ cleans the arguments into the *)
(* key and looks the instance up in the pool or adds a new one; __init__    *)
(* and __post_init__ then set the fields of the instance.                   *)

CtorMaxCalls == 2

CtorMaxLen == 2

\* TAB_SIZE
TAB_SIZE == 4

\* IN_BULLETS, as far as its glyphs are characters of the model.
IN_BULLETS == <<"-", "*">>

\* maxlen of __pool_deque
PoolLimit == 127

\* The characters of an in_bullets argument: whitespace, a letter, a glyph.
CtorChars == {" ", "a", "-"}

CtorInBullets == UNION {[1..n -> CtorChars] : n \in 0..CtorMaxLen}

\* The tab_size arguments drawn (0 is cleaned to 1).
CtorTabSizes == {0, 1}

NotSpace(c) == ~IsSpace(c)

\* Mutant of cleanup_bullets_attr_to_str: the whitespace is left in.
cleanup_bullets_attr_to_str_keeps_space(seq) == seq

\* _ArgsKey.__cleanup_bullets_attr_to_str: ''.join(seq_str.split())
cleanup_bullets_attr_to_str(seq) == SelectSeq(seq, NotSpace)

\* _ArgsKey.clean_key: the error it raises, or the key (the arguments left at
\* their defaults are the same in every key).
clean_key(args) ==
    LET cleaned == cleanup_bullets_attr_to_str(args.in_bullets)
        in_bullets == IF cleaned = <<>> THEN cleanup_bullets_attr_to_str(IN_BULLETS)
                      ELSE cleaned
    IN  IF ~(in_bullets # <<>> /\ ~re_has_whitespaces(in_bullets))
        THEN [raised |-> "ValueError", key |-> <<>>]
        ELSE [raised |-> "none",
              key |-> <<[in_bullets |-> in_bullets, tab_size |-> Max(args.tab_size, 1)]>>]

\* __InstancePool.get: the instance of the key, 0 for None.
pool_get(key) ==
    IF \E e \in pool_dict : e[1] = key
    THEN (CHOOSE e \in pool_dict : e[1] = key)[2]
    ELSE 0

\* object.__new__(cls): no field is set yet.
NewInstance == [state |-> "new", in_bullets |-> <<>>, tab_size |-> 0, re_bullet_match |-> {}]

\* hash(instance), the generated __hash__ over the fields: with slots an
\* instance whose fields are not set has nothing to hash (AttributeError);
\* without slots it hashes the defaults of the class. The hash is modelled by
\* the fields themselves.
Hashable(inst) == ~(slots /\ inst.state = "new")

\* _ArgsKey.from_instance: the key cleaned from the fields of the instance
\* (the defaults of the class while no field is set).
from_instance(inst) ==
    IF inst.state = "new"
    THEN clean_key([in_bullets |-> IN_BULLETS, tab_size |-> TAB_SIZE]).key[1]
    ELSE clean_key([in_bullets |-> inst.in_bullets, tab_size |-> inst.tab_size]).key[1]

\* `instance in __pool_reverse`: the entry of this instance is found under the
\* hash the instance has now. An entry stored under another hash is found
\* only when the probing of the dict for the new hash comes across it before
\* an empty slot (the entry is then matched by identity), which depends on
\* the hash values of the run: probe_hit tells whether it does.
in_reverse(reverse, insts, instance, probe_hit) ==
    \E e \in reverse : e[1] = instance /\ (e[3] = insts[instance] \/ probe_hit)

\* __pool_reverse[instance], for an instance that is found.
reverse_key(reverse, instance) ==
    (CHOOSE e \in reverse : e[1] = instance)[2]

\* `__pool_reverse[instance] = key`
reverse_set(reverse, insts, instance, key) ==
    {e \in reverse : ~(e[1] = instance /\ e[3] = insts[instance])}
        \cup {<<instance, key, insts[instance]>>}

\* `key in __pool_dict`
in_pool(dict, key) == \E d \in dict : d[1] = key

\* `__pool_dict[key] = instance`
pool_set(dict, key, instance) == {d \in dict : d[1] # key} \cup {<<key, instance>>}

\* The collections of the pool as one value, with the error raised on the way
\* and, within __sync_internal_collections, its deque_items_to_update.
PoolOf(deque, dict, reverse) ==
    [deque |-> deque, dict |-> dict, reverse |-> reverse, raised |-> "none", updates |-> {}]

\* One pass of the loop of __sync_internal_collections, for the instance at
\* index j of the deque, which the rebuilt reverse dict lacks: it is put back
\* from the entries the old reverse dict had beyond the pool, or replaced in
\* the deque by the pooled instance of its key (the replacements are
\* collected in `updates`), or added to the dicts.
sync_deque_item(p, old_extra, insts, j) ==
    LET instance == p.deque[j]
        key == from_instance(insts[instance])
        old_own == {e \in old_extra : e[1] = instance}
        old_same_key == {e \in old_extra : e[2] = key}
        put == IF old_own # {}
               THEN <<(CHOOSE e \in old_own : TRUE)[2], instance, {}>>
               ELSE IF in_pool(p.dict, key)
               THEN <<key, (CHOOSE d \in p.dict : d[1] = key)[2],
                      {<<j, (CHOOSE d \in p.dict : d[1] = key)[2]>>}>>
               ELSE IF old_same_key # {}
               THEN <<key, (CHOOSE e \in old_same_key : TRUE)[1],
                      {<<j, (CHOOSE e \in old_same_key : TRUE)[1]>>}>>
               ELSE <<key, instance, {}>>
    IN  IF old_own = {} /\ in_pool(p.dict, key)
        THEN [p EXCEPT !.updates = @ \cup put[3]]
        ELSE [p EXCEPT !.dict = pool_set(@, put[1], put[2]),
                       !.reverse = reverse_set(@, insts, put[2], put[1]),
                       !.updates = @ \cup put[3]]

\* The indices from i on of the instances of the deque that are not found in
\* the reverse dict under the hashes they have now, or cannot be hashed.
NotInReverse(p, insts, i) ==
    {k \in i..Len(p.deque) :
        \/ ~Hashable(insts[p.deque[k]])
        \/ ~in_reverse(p.reverse, insts, p.deque[k], FALSE)}

\* The loop of __sync_internal_collections over the deque. The instances the
\* rebuilt reverse dict holds are passed over; walk[m] is the pool after the
\* m-th of the other instances was dealt with, and the index the loop goes
\* on at (looking an instance up hashes it). At the end the replacements are
\* written to the deque.
sync_deque_items(p, old_extra, insts) ==
    LET n == Cardinality(NotInReverse(p, insts, 1))
        walk[m \in 0..n] ==
            IF m = 0 THEN [pool |-> p, i |-> 1]
            ELSE LET prev == walk[m - 1]
                     rest == NotInReverse(prev.pool, insts, prev.i)
                     j == CHOOSE k \in rest : \A k2 \in rest : k <= k2
                 IN  IF rest = {} \/ prev.pool.raised # "none"
                     THEN prev
                     ELSE IF ~Hashable(insts[prev.pool.deque[j]])
                     THEN [pool |-> [prev.pool EXCEPT !.raised = "AttributeError"], i |-> j + 1]
                     ELSE [pool |-> sync_deque_item(prev.pool, old_extra, insts, j), i |-> j + 1]
        q == walk[n].pool
    IN  IF q.raised # "none"
        THEN [q EXCEPT !.updates = {}]
        ELSE [q EXCEPT !.deque = [k \in 1..Len(q.deque) |->
                                     IF \E u \in q.updates : u[1] = k
                                     THEN (CHOOSE u \in q.updates : u[1] = k)[2]
                                     ELSE q.deque[k]],
                       !.updates = {}]

\* __InstancePool.__sync_internal_collections: the reverse dict is rebuilt
\* from the pool dict, which hashes every pooled instance, then the deque is
\* walked.
sync_internal_collections(p, insts) ==
    LET old_extra == {e \in p.reverse : ~in_pool(p.dict, e[2])}
    IN  IF \/ \E e \in old_extra : ~Hashable(insts[e[1]])
           \/ \E d \in p.dict : ~Hashable(insts[d[2]])
        THEN [p EXCEPT !.raised = "AttributeError"]
        ELSE sync_deque_items(
                 [p EXCEPT !.reverse = {<<d[2], d[1], insts[d[2]]>> : d \in p.dict}],
                 old_extra, insts)

\* The end of __InstancePool.popleft, lines 316-324: p2 is the pool after the
\* lookup of the popped instance and the synchronization it may have caused.
popleft_key(p2, insts, popped, probe_hit) ==
    LET found == in_reverse(p2.reverse, insts, popped, probe_hit)
        key == IF found THEN reverse_key(p2.reverse, popped)
               ELSE from_instance(insts[popped])
    IN  IF p2.raised # "none"
        THEN p2
        ELSE [p2 EXCEPT !.reverse = IF found
                                    THEN {e \in p2.reverse : e[1] # popped}
                                    ELSE p2.reverse,
                        !.dict = {d \in p2.dict : d[1] # key}]

\* Mutant of popleft: the deque is popped at its right end.
popleft_newest(p, insts, probe_hit) ==
    LET n == Len(p.deque)
        popped == p.deque[n]
    IN  [p EXCEPT !.deque = SubSeq(p.deque, 1, n - 1),
                  !.dict = {d \in p.dict : d[2] # popped},
                  !.reverse = {e \in p.reverse : e[1] # popped}]

\* __InstancePool.popleft: the leftmost instance leaves the deque; it is
\* looked up in the reverse dict (which hashes it), the collections are
\* synchronized when it is not found there, and its key leaves the dicts.
popleft(p, insts, probe_hit) ==
    IF ~Hashable(insts[Head(p.deque)])
    THEN [p EXCEPT !.deque = Tail(p.deque), !.raised = "AttributeError"]
    ELSE CHOOSE result \in
             {popleft_key(p2, insts, Head(p.deque), probe_hit) :
                 p2 \in {IF ~in_reverse(p.reverse, insts, Head(p.deque), probe_hit)
                         THEN sync_internal_collections(
                                  [p EXCEPT !.deque = Tail(p.deque)], insts)
                         ELSE [p EXCEPT !.deque = Tail(p.deque)]}} : TRUE

\* The end of __InstancePool.append, lines 383-387: the deque and the dict
\* take the instance, then the reverse dict, which hashes it. p1 is the pool
\* after the pop.
append_instance(p1, insts, instance, key) ==
    IF p1.raised # "none"
    THEN p1
    ELSE IF ~Hashable(insts[instance])
    THEN [p1 EXCEPT !.deque = Append(p1.deque, instance),
                    !.dict = pool_set(p1.dict, key, instance),
                    !.raised = "AttributeError"]
    ELSE [p1 EXCEPT !.deque = Append(p1.deque, instance),
                    !.dict = pool_set(p1.dict, key, instance),
                    !.reverse = reverse_set(p1.reverse, insts, instance, key)]

\* __InstancePool.append(instance, key): at the limit the leftmost instance
\* is popped first, then the instance is stored.
pool_append(p, insts, instance, key, probe_hit) ==
    CHOOSE result \in
        {append_instance(p1, insts, instance, key) :
            p1 \in {IF Len(p.deque) = PoolLimit THEN popleft(p, insts, probe_hit) ELSE p}} : TRUE

\* The instance is the most recently used one now.
Touch(order, instance) ==
    Append(SelectSeq(order, LAMBDA x : x # instance), instance)

InitConstruct ==
    /\ pc = "ctor_ready"
    /\ slots \in BOOLEAN
    /\ pool_deque = <<>> /\ pool_dict = {} /\ pool_reverse = {} /\ instances = <<>>
    /\ ctor_args = <<>> /\ args_key = <<>> /\ ctor_result = <<>> /\ calls = 0
    /\ last_used = <<>> /\ returned = {}
    /\ P1Idle /\ P2Idle /\ ParseIdle /\ FnIdle

\* DocstringToText.__new__(**args): the arguments are cleaned into the key,
\* the pooled instance of the key is returned, or a new instance is made and
\* appended to the pool. With slots the new instance has no field to hash
\* yet: `__pool_reverse[instance] = key` raises AttributeError after the deque
\* and the dict took the instance.
new(args, probe_hit) ==
    LET k == clean_key(args)
        found == IF k.raised = "none" THEN pool_get(k.key[1]) ELSE 0
        instance == Len(instances) + 1
        insts == Append(instances, NewInstance)
    IN  /\ ctor_args' = args
        /\ args_key' = k
        /\ calls' = calls + 1
        /\ IF k.raised # "none"
           THEN /\ ctor_result' = [raised |-> k.raised, instance |-> 0]
                /\ pc' = "ctor_ready"
                /\ UNCHANGED <<poolvars, last_used>>
           ELSE IF found # 0
           THEN /\ ctor_result' = [raised |-> "none", instance |-> found]
                /\ pc' = "ctor_init"
                /\ last_used' = Touch(last_used, found)
                /\ UNCHANGED poolvars
           ELSE \E p \in {pool_append(PoolOf(pool_deque, pool_dict, pool_reverse), insts,
                                      instance, k.key[1], probe_hit)} :
                /\ instances' = insts
                /\ pool_deque' = p.deque
                /\ pool_dict' = p.dict
                /\ pool_reverse' = p.reverse
                /\ last_used' = IF \E d \in p.dict : d[2] = instance
                                THEN Touch(last_used, instance)
                                ELSE last_used
                /\ IF p.raised # "none"
                   THEN /\ ctor_result' = [raised |-> p.raised, instance |-> 0]
                        /\ pc' = "ctor_ready"
                   ELSE /\ ctor_result' = [raised |-> "none", instance |-> instance]
                        /\ pc' = "ctor_init"
        /\ UNCHANGED <<slots, returned, p1vars, p2vars, parsevars, fnvars>>

\* A call DocstringToText(in_bullets=..., tab_size=...) begins.
CtorNew ==
    /\ pc = "ctor_ready"
    /\ calls < CtorMaxCalls
    /\ \E ib \in CtorInBullets, ts \in CtorTabSizes, probe_hit \in BOOLEAN :
          new([in_bullets |-> ib, tab_size |-> ts], probe_hit)

\* The generated __init__ (the fields take the raw arguments) and __post_init__
\* (the key is cleaned again, the matcher is built, the fields are set anew);
\* then the call returns the instance.
CtorInit ==
    /\ pc = "ctor_init"
    /\ LET i == ctor_result.instance
           raw == [state |-> "raw", in_bullets |-> ctor_args.in_bullets,
                   tab_size |-> ctor_args.tab_size, re_bullet_match |-> {}]
           k == clean_key([in_bullets |-> raw.in_bullets, tab_size |-> raw.tab_size])
           m == re_bullet_match_factory([type |-> "str", value |-> k.key[1].in_bullets])
       IN  IF k.raised # "none"
           THEN /\ instances' = [instances EXCEPT ![i] = raw]
                /\ ctor_result' = [raised |-> k.raised, instance |-> 0]
                /\ returned' = returned
           ELSE IF m.raised # "none"
           THEN /\ instances' = [instances EXCEPT ![i] = raw]
                /\ ctor_result' = [raised |-> m.raised, instance |-> 0]
                /\ returned' = returned
           ELSE /\ instances' = [instances EXCEPT ![i] =
                                    [state |-> "ready", in_bullets |-> k.key[1].in_bullets,
                                     tab_size |-> k.key[1].tab_size,
                                     re_bullet_match |-> m.glyphs]]
                /\ ctor_result' = [raised |-> "none", instance |-> i]
                /\ returned' = returned \cup {<<args_key.key[1], i>>}
    /\ pc' = "ctor_ready"
    /\ UNCHANGED <<slots, pool_deque, pool_dict, pool_reverse, ctor_args, args_key, calls,
                   last_used>>
    /\ UNCHANGED <<p1vars, p2vars, parsevars, fnvars>>

NextConstruct == CtorNew \/ CtorInit

SpecConstruct == InitConstruct /\ [][NextConstruct]_vars

---------------------------------------------------------------------------
(* The pool near its limit: the calls DocstringToText(tab_size=t) for      *)
(* t = 1, 2, ... were made before, each until it returned, and the pool    *)
(* holds their instances; the calls that follow ask for the two oldest     *)
(* keys or for keys the pool has not seen.                                 *)

PoolMaxCalls == 4

PoolRoom == 1

\* The key of DocstringToText(tab_size=t).
PoolKey(t) == clean_key([in_bullets |-> IN_BULLETS, tab_size |-> t]).key[1]

\* The instance DocstringToText(tab_size=t) has after __post_init__.
PoolInstance(t) ==
    [state |-> "ready", in_bullets |-> PoolKey(t).in_bullets, tab_size |-> t,
     re_bullet_match |-> re_bullet_match_factory(
                             [type |-> "str", value |-> PoolKey(t).in_bullets]).glyphs]

\* The tab sizes of the calls: the two oldest keys of the pool and two new ones.
PoolTabSizes == {1, 2, PoolLimit + 1, PoolLimit + 2}

\* The state after the calls for t = 1..n: without slots every call returned
\* at once and left its reverse entry under the hash of the unset instance;
\* with slots the first call of every key raised AttributeError and left no
\* reverse entry, and the call was made again.
InitPool ==
    /\ pc = "ctor_ready"
    /\ slots \in BOOLEAN
    /\ \E n \in (PoolLimit - PoolRoom)..PoolLimit :
          /\ instances = [i \in 1..n |-> PoolInstance(i)]
          /\ pool_deque = [i \in 1..n |-> i]
          /\ pool_dict = {<<PoolKey(i), i>> : i \in 1..n}
          /\ pool_reverse = IF slots THEN {}
                            ELSE {<<i, PoolKey(i), NewInstance>> : i \in 1..n}
          /\ last_used = [i \in 1..n |-> i]
          /\ returned = {<<PoolKey(i), i>> : i \in 1..n}
          /\ ctor_args = [in_bullets |-> IN_BULLETS, tab_size |-> n]
          /\ args_key = clean_key([in_bullets |-> IN_BULLETS, tab_size |-> n])
          /\ ctor_result = [raised |-> "none", instance |-> n]
    /\ calls = 0
    /\ P1Idle /\ P2Idle /\ ParseIdle /\ FnIdle

\* A call DocstringToText(tab_size=t) begins.
PoolNew ==
    /\ pc = "ctor_ready"
    /\ calls < PoolMaxCalls
    /\ \E ts \in PoolTabSizes, probe_hit \in BOOLEAN :
          new([in_bullets |-> IN_BULLETS, tab_size |-> ts], probe_hit)

NextPool == PoolNew \/ CtorInit

SpecPool == InitPool /\ [][NextPool]_vars

---------------------------------------------------------------------------
(* The pipeline: DocstringToText.__parse_to_blocks runs the line parser on   *)
(* every line of the text, then Pass 1, then Pass 2 of the instance, and     *)
(* returns nothing; Pass 3 is a method of its own that nothing calls.  The   *)
(* rendering of the lines of Pass 2 by the line formatter, and the           *)
(* conversion of a rendered text once more, are the steps the specification  *)
(* puts after them.  fn_in holds the texts given (a text is the sequence of  *)
(* its lines), fn_out the results.                                           *)

PipeMaxLines == 3

\* The raw lines a text is made of.
PipeRawLines ==
    {<<>>, <<"a">>, <<" ", " ", "a">>, <<"\t", "a">>, <<"-", " ", "a">>,
     <<" ", " ", "-", " ", "a">>, <<"1", ".", " ", "a">>}

PipeTexts == UNION {[1..n -> PipeRawLines] : n \in 0..PipeMaxLines}

\* The tab sizes of the instance: 1 and the default.
PipeTabSizes == {1, TAB_SIZE}

\* The out_bullets of the instance: None, or one glyph that is an in-bullet too.
PipeOutBullets == {<<>>, <<"*">>}

\* What a step of the pipeline gives back.
NoneResult == [kind |-> "None", lines |-> <<>>]

TextResult(lines) == [kind |-> "text", lines |-> lines]

\* __pass3_join_list_headers_with_continuation: the body is `pass`.
pass3_join_list_headers_with_continuation(lines) == NoneResult

\* The text being converted: the last one given.
PipeText == fn_in[Len(fn_in)]

InitPipeline ==
    /\ pc = "pipe_start"
    /\ \E text \in PipeTexts : fn_in = <<text>>
    /\ fn_out = <<>>
    /\ out_bullets \in PipeOutBullets
    /\ minimize_indents \in BOOLEAN
    /\ tab_size \in PipeTabSizes
    /\ input_lines = <<>> /\ output = <<>> /\ pending_stack = <<>> /\ last_step = "none"
    /\ P1Idle /\ ParseIdle /\ CtorIdle

\* lines = [parse_line(l) for l in text.splitlines()], each line a new object;
\* the call of Pass 1 follows.
PipeParse ==
    /\ pc = "pipe_start"
    /\ parsed_text' = [i \in 1..Len(PipeText) |->
                          [parse_line(PipeText[i], tab_size) EXCEPT !.id = i]]
    /\ pc' = "p1_start"
    /\ UNCHANGED <<line_i, joined_blocks, pending_block, active_indent, active_block,
                   is_after_empty_line, common_indent, p1_result>>
    /\ UNCHANGED <<p2vars, parsevars, fnvars, ctorvars>>

\* common_indent_in_spaces, lines = ...; lines = self._pass2_change_indents_to_tabs(lines)
PipePass2 ==
    /\ pc = "p1_done"
    /\ input_lines' = p1_result
    /\ pc' = "p2_start"
    /\ UNCHANGED <<minimize_indents, tab_size, output, pending_stack, last_step>>
    /\ UNCHANGED <<p1vars, parsevars, fnvars, ctorvars>>

\* The end of __parse_to_blocks: there is no return statement.
ParseToBlocksReturn ==
    /\ pc = "p2_done"
    /\ fn_out' = Append(fn_out, NoneResult)
    /\ pc' = "blocks_done"
    /\ UNCHANGED <<fn_in, out_bullets, p1vars, p2vars, parsevars, ctorvars>>

\* Pass 3, given the lines of Pass 2.
Pass3 ==
    /\ pc = "p2_done"
    /\ fn_out' = Append(fn_out, pass3_join_list_headers_with_continuation(output))
    /\ pc' = "pass3_done"
    /\ UNCHANGED <<fn_in, out_bullets, p1vars, p2vars, parsevars, ctorvars>>

\* The line formatter, given each line of Pass 2 with its list level.
FormatOutput ==
    /\ pc = "p2_done"
    /\ fn_out' = Append(fn_out,
                    TextResult([k \in 1..Len(output) |->
                                   format_line(output[k], output[k].list_level)]))
    /\ pc' = "text_done"
    /\ UNCHANGED <<fn_in, out_bullets, p1vars, p2vars, parsevars, ctorvars>>

\* The rendered text is converted again by the same instance.
ConvertAgain ==
    /\ pc = "text_done"
    /\ Len(fn_in) = 1
    /\ fn_in' = Append(fn_in, fn_out[Len(fn_out)].lines)
    /\ pc' = "pipe_start"
    /\ parsed_text' = <<>> /\ line_i' = 0 /\ joined_blocks' = <<>> /\ pending_block' = <<>>
    /\ active_indent' = 0 /\ active_block' = BlockType_Indent
    /\ is_after_empty_line' = FALSE /\ common_indent' = 0 /\ p1_result' = <<>>
    /\ input_lines' = <<>> /\ output' = <<>> /\ pending_stack' = <<>> /\ last_step' = "none"
    /\ UNCHANGED <<minimize_indents, tab_size, fn_out, out_bullets, parsevars, ctorvars>>

NextPipeline ==
    \/ PipeParse \/ P1Unindent \/ P1Iteration \/ P1Return
    \/ PipePass2 \/ P2Start \/ P2Iteration \/ P2Return
    \/ ParseToBlocksReturn \/ Pass3 \/ FormatOutput \/ ConvertAgain

SpecPipeline == InitPipeline /\ [][NextPipeline]_vars

---------------------------------------------------------------------------
(* Claims about Pass 1 *)

IsListItem(line) == line.is_list

IsEmptyLine(line) == line.is_empty

IsPlainText(line) == ~line.is_empty /\ ~line.is_list

\* Line k of lines starts a maximal run of plain-text lines of one indent.
StartsTextRun(lines, k) ==
    /\ IsPlainText(lines[k])
    /\ k = 1 \/ ~IsPlainText(lines[k-1]) \/ lines[k-1].indent # lines[k].indent

\* The last line of the run that starts at k.
RECURSIVE TextRunEnd(_, _)
TextRunEnd(lines, k) ==
    IF k < Len(lines) /\ IsPlainText(lines[k+1]) /\ lines[k+1].indent = lines[k].indent
    THEN TextRunEnd(lines, k + 1)
    ELSE k

\* One [indent, text] per maximal plain-text run of lines[k..], in order.
RECURSIVE ExpectedTextRuns(_, _)
ExpectedTextRuns(lines, k) ==
    IF k > Len(lines) THEN <<>>
    ELSE IF StartsTextRun(lines, k)
    THEN LET e == TextRunEnd(lines, k)
         IN  <<[indent |-> lines[k].indent,
                text |-> join_texts(SubSeq(lines, k, e))]>>
             \o ExpectedTextRuns(lines, e + 1)
    ELSE ExpectedTextRuns(lines, k + 1)

IndentAndText(lines) == [k \in 1..Len(lines) |-> [indent |-> lines[k].indent, text |-> lines[k].text]]

\* The empty lines of `lines` that are not the first of their run, in order.
RECURSIVE KeptEmptyLines(_, _)
KeptEmptyLines(lines, k) ==
    IF k > Len(lines) THEN <<>>
    ELSE IF lines[k].is_empty /\ k > 1 /\ lines[k-1].is_empty
    THEN <<lines[k]>> \o KeptEmptyLines(lines, k + 1)
    ELSE KeptEmptyLines(lines, k + 1)

NonEmptyIndents(lines) == {lines[k].indent : k \in {j \in 1..Len(lines) : ~lines[j].is_empty}}

\* C2: every list-item line of the input is in the returned sequence exactly once,
\* as its own unchanged line and in input order.
C2_ListItemsPassThrough ==
    pc = "p1_done" =>
        SelectSeq(p1_result, IsListItem) = SelectSeq(parsed_text, IsListItem)

\* C3: every maximal run of plain-text lines of one indent is in the returned
\* sequence as exactly one line, its text the members' texts joined by single
\* spaces and its indent the run's indent; no run is missing.
C3_TextRunsJoined ==
    pc = "p1_done" =>
        IndentAndText(SelectSeq(p1_result, IsPlainText)) = ExpectedTextRuns(parsed_text, 1)

\* C4: of every maximal run of k empty lines the returned sequence holds exactly
\* the k-1 lines after the first, each as its own empty line.
C4_EmptyRunKeepsAllButFirst ==
    pc = "p1_done" =>
        SelectSeq(p1_result, IsEmptyLine) = KeptEmptyLines(parsed_text, 1)

\* C5: when the input has a non-empty line, the minimum indent over the non-empty
\* lines of the returned sequence is exactly 0.
C5_MinIndentZero ==
    (pc = "p1_done" /\ NonEmptyIndents(parsed_text) # {}) =>
        /\ NonEmptyIndents(p1_result) # {}
        /\ SetMin(NonEmptyIndents(p1_result)) = 0

---------------------------------------------------------------------------
(* Claims about Pass 2 *)

P2Ended == pc \in {"p2_done", "p2_failed"}

\* The list_level the output gives to the input line numbered i.
OutputLine(i) == output[CHOOSE k \in 1..Len(output) : output[k].id = i]

InOutput(i) == \E k \in 1..Len(output) : output[k].id = i

NewlyEmitted == SubSeq(output', Len(output) + 1, Len(output'))

\* C1: convert runs to completion for every list of well-formed lines; it never
\* stops with an assertion failure.
C1_ConvertNeverFails == pc # "p2_failed"

\* C7: with minimize_indents, an iteration that discovers an indented child block
\* (common indent d > 0) schedules it exactly one tab deeper than the level it was
\* found in, whatever d and tab_size are, and every line an iteration emits carries
\* the tab indent of the level that emits it.
C7_MinimizedChildOneTabDeeper ==
    [][(pc = "p2_loop" /\ pending_stack # <<>> /\ minimize_indents /\ pc' = "p2_loop") =>
        /\ (ActiveBlock.pending_lines # <<>> /\ ~Split.extracted_is_final
                /\ Split.common_indent > 0) =>
              /\ Len(pending_stack') = Len(pending_stack)
              /\ pending_stack'[Len(pending_stack')].indent_tabs_abs
                    = ActiveBlock.indent_tabs_abs + 1
              /\ pending_stack'[Len(pending_stack')].indent_spaces_rel = Split.common_indent
              /\ [k \in 1..Len(ActiveBlock.pending_lines) |->
                      pending_stack'[Len(pending_stack')].pending_lines[k][2].id]
                    = [k \in 1..Len(ActiveBlock.pending_lines) |->
                          ActiveBlock.pending_lines[k][2].id]
        /\ \A k \in 1..Len(NewlyEmitted) :
              NewlyEmitted[k].indent = ActiveBlock.indent_tabs_abs
      ]_vars

\* C7 witness: a line that sat 2 spaces deep with tab_size 1 was emitted at 1 tab.
C7_Witness ==
    /\ pc = "p2_done" /\ minimize_indents /\ tab_size = 1
    /\ \E k \in 1..Len(output) :
          /\ output[k].indent = 1
          /\ input_lines[output[k].id].indent = 2
    /\ \E j \in 1..Len(output) :
          /\ output[j].indent = 0 /\ ~output[j].is_empty
          /\ input_lines[output[j].id].indent = 0

\* C9: once convert has ended, a bullet item directly followed by a more-indented
\* bullet item has list_level L in the output and the nested item has L + 1.
C9_NestedBulletOneLevelDeeper ==
    \A i \in 1..(Len(input_lines) - 1) :
        (/\ P2Ended
         /\ input_lines[i].bullet # <<>> /\ input_lines[i+1].bullet # <<>>
         /\ input_lines[i+1].indent > input_lines[i].indent) =>
            /\ pc = "p2_done"
            /\ InOutput(i) /\ InOutput(i + 1)
            /\ OutputLine(i + 1).list_level = OutputLine(i).list_level + 1

\* C10: once convert has ended, a list item directly followed, at the same indent
\* or deeper, by a list item of the other kind: that first item of the new kind
\* has list_level 0 in the output.
C10_KindSwitchResetsLevel ==
    \A i \in 1..(Len(input_lines) - 1) :
        (/\ P2Ended
         /\ input_lines[i].is_list /\ input_lines[i+1].is_list
         /\ block_type(input_lines[i]) # block_type(input_lines[i+1])
         /\ input_lines[i+1].indent >= input_lines[i].indent) =>
            /\ pc = "p2_done"
            /\ InOutput(i + 1)
            /\ OutputLine(i + 1).list_level = 0

---------------------------------------------------------------------------
(* Claims about the line parser and the rounding policy *)

IsBlank(s) == \A k \in 1..Len(s) : IsSpace(s[k])

\* C6: parsing an empty or whitespace-only raw line yields a line with is_empty
\* true and indent 0, and for every parsed line is_empty is true exactly when the
\* line has no bullet, no number and no text.
C6_EmptyLineParsesEmpty ==
    pc = "parse_done" =>
        /\ IsBlank(raw_line) => (parsed[1].is_empty /\ parsed[1].indent = 0)
        /\ parsed[1].is_empty <=>
              (parsed[1].bullet = <<>> /\ parsed[1].number = <<>> /\ parsed[1].text = <<>>)

\* C8: without minimize_indents, a delta of d spaces gives 0 tabs when d <= 0,
\* 1 tab when d = T, k tabs when d = T*k, k tabs when T*(k-0.5) < d < T*(k+0.5)
\* (k >= 1), and at least 1 tab when d > 0.
C8_RoundFullTabs ==
    pc = "round_done" =>
        LET d == fn_in[1]
            T == tab_size
            r == fn_out[1]
        IN  /\ d <= 0 => r = 0
            /\ d = T => r = 1
            /\ d > 0 => r >= 1
            /\ \A k \in 1..(RoundMaxDelta + 1) :
                  /\ d = T * k => r = k
                  /\ (2 * T * k - T < 2 * d /\ 2 * d < 2 * T * k + T) => r = k

---------------------------------------------------------------------------
(* Claims about the list levels and the lines of the output of Pass 2 *)

\* Input line i is a list item with no list item of a smaller indent before it.
IsTopLevelListItem(i) ==
    /\ input_lines[i].is_list
    /\ \A j \in 1..(i - 1) :
          ~(input_lines[j].is_list /\ input_lines[j].indent < input_lines[i].indent)

\* C11: once convert has returned, every list item of the output has
\* list_level >= 0 (so -1 is carried only by lines that are not list items), and
\* a list item without an enclosing list item has list_level 0.
C11_ListItemsHaveLevel ==
    pc = "p2_done" =>
        \A k \in 1..Len(output) :
            output[k].is_list =>
                /\ output[k].list_level >= 0
                /\ IsTopLevelListItem(output[k].id) => output[k].list_level = 0

\* The object identities of a sequence of lines, in order.
IdsOf(lines) == [k \in 1..Len(lines) |-> lines[k].id]

\* C12 (as far as convert returns): the returned sequence holds the line objects
\* of the input, each once and in input order.
C12_ReturnedKeepsLines ==
    pc = "p2_done" => IdsOf(output) = IdsOf(input_lines)

\* C12: for every input convert ends with a returned sequence that holds the
\* line objects of the input, each exactly once and in input order.
C12_OutputKeepsLines ==
    P2Ended => (pc = "p2_done" /\ IdsOf(output) = IdsOf(input_lines))

---------------------------------------------------------------------------
(* Claims about the detected indent *)

\* The leading whitespace run of the raw line once its trailing whitespace is cut.
LeadingRun(s) ==
    LET t == rstrip(s)
        n == Cardinality({k \in 1..Len(t) : \A j \in 1..k : IsSpace(t[j])})
    IN  SubSeq(t, 1, n)

TabPositions(w) == {k \in 1..Len(w) : w[k] = "\t"}

LastTab(w) == IF TabPositions(w) = {} THEN 0 ELSE CHOOSE k \in TabPositions(w) : \A j \in TabPositions(w) : j <= k

\* The length of the run of non-tab whitespace that ends right before position k.
RunLenBefore(w, k) ==
    Cardinality({j \in 1..(k - 1) : \A i \in j..(k - 1) : w[i] # "\t"})

\* Sum of (length \div T) over the runs of non-tab whitespace that a tab follows.
RECURSIVE WholeTabsOfRuns(_, _, _)
WholeTabsOfRuns(w, tabs, T) ==
    IF tabs = {} THEN 0
    ELSE LET k == CHOOSE x \in tabs : TRUE
         IN  (RunLenBefore(w, k) \div T) + WholeTabsOfRuns(w, tabs \ {k}, T)

\* C13 as stated: the indent is (number of tabs) * tab_size + (length of the run
\* of non-tab whitespace after the last tab); runs of spaces before a tab count 0.
C13_SpacesBeforeTabVoid ==
    pc = "parse_done" =>
        LET w == LeadingRun(raw_line)
        IN  parsed[1].indent = Cardinality(TabPositions(w)) * tab_size + (Len(w) - LastTab(w))

\* C13 amended: the indent is (number of tabs) * tab_size + (length of the run of
\* non-tab whitespace after the last tab) + tab_size * (the whole tabs of every
\* run of spaces that a tab follows: its length divided by tab_size, rounded
\* down); only the remainder below tab_size of such a run is void.
C13_SpacesBeforeTabFloored ==
    pc = "parse_done" =>
        LET w == LeadingRun(raw_line)
        IN  parsed[1].indent =
                Cardinality(TabPositions(w)) * tab_size + (Len(w) - LastTab(w))
                + tab_size * WholeTabsOfRuns(w, TabPositions(w), tab_size)

\* C13 witness: two spaces, a tab and a text with tab_size 2 gave indent 4.
C13_Witness ==
    /\ pc = "parse_done" /\ tab_size = 2
    /\ raw_line = <<" ", " ", "\t", "a">>
    /\ parsed[1].indent = 4

---------------------------------------------------------------------------
(* Claims about the matchers of list items *)

\* The length of the maximal run of characters of the class at the start of s[pos..].
LeadingCount(s, pos, class) ==
    Cardinality({k \in pos..Len(s) : \A j \in pos..k : s[j] \in class})

\* s[pos..] without its leading whitespace.
WithoutLeadingSpace(s, pos) == SubSeq(s, pos + LeadingCount(s, pos, Spaces), Len(s))

\* C14: a line is recognized as a bullet item exactly when it starts with a run
\* of one or more bullet glyphs that is followed by whitespace or by the end of
\* the line; the bullet is that whole run, the text is what follows the
\* whitespace; a glyph run directly followed by another character is no bullet.
C14_BulletRecognized ==
    pc = "bullet_matched" =>
        LET s == fn_in[1]
            r == fn_out[1]
            g == LeadingCount(s, 1, InBullets)
        IN  /\ r.matched <=> (g >= 1 /\ (g = Len(s) \/ IsSpace(s[g + 1])))
            /\ r.matched => (r.bullet = SubSeq(s, 1, g) /\ r.text = WithoutLeadingSpace(s, g + 1))
            /\ (g >= 1 /\ g < Len(s) /\ ~IsSpace(s[g + 1])) => ~r.matched

\* C14 witness: "-* a" was matched with the bullet "-*" and the text "a".
C14_Witness ==
    /\ pc = "bullet_matched"
    /\ fn_in[1] = <<"-", "*", " ", "a">>
    /\ fn_out[1] = [matched |-> TRUE, bullet |-> <<"-", "*">>, text |-> <<"a">>]

\* s[a..b] is a digit run or one single Latin letter.
IsNumeral(s, a, b) ==
    /\ 1 <= a /\ a <= b /\ b <= Len(s)
    /\ \/ \A k \in a..b : s[k] \in Digits
       \/ a = b /\ s[a] \in Letters

\* s[a..b] is a numeral followed by one or more characters of separators.
IsPart(s, a, b, separators) ==
    \E m \in a..(b - 1) :
        IsNumeral(s, a, m) /\ \A k \in (m + 1)..b : s[k] \in separators

\* s[a..b] is zero or more prefix parts and then a final part.
RECURSIVE IsNumbering(_, _, _)
IsNumbering(s, a, b) ==
    \/ IsPart(s, a, b, FinalSeparators)
    \/ \E m \in a..(b - 1) : IsPart(s, a, m, PrefixSeparators) /\ IsNumbering(s, m + 1, b)

\* s[a..b] is optional whitespace and then a part.
IsSpacedPart(s, a, b, separators) ==
    \E w \in a..b : (\A k \in a..(w - 1) : IsSpace(s[k])) /\ IsPart(s, w, b, separators)

\* s[a..b] is zero or more prefix parts and then a final part, each of them
\* after optional whitespace.
RECURSIVE IsSpacedNumbering(_, _, _)
IsSpacedNumbering(s, a, b) ==
    \/ IsSpacedPart(s, a, b, FinalSeparators)
    \/ \E m \in a..(b - 1) :
          IsSpacedPart(s, a, m, PrefixSeparators) /\ IsSpacedNumbering(s, m + 1, b)

IndentRemoved(s) == s = <<>> \/ ~IsSpace(s[1])

\* C15 as stated: a line without indent is recognized as a numbered item exactly
\* when it starts with zero or more prefix parts (numeral, then separators) and a
\* final part (numeral, then one or more of the final separators), the parts
\* directly one after the other; the number is such a start of the line, the
\* text is the remainder without its leading whitespace.
C15_NumberRecognizedAdjacentParts ==
    (pc = "number_matched" /\ IndentRemoved(fn_in[1])) =>
        LET s == fn_in[1]
            r == fn_out[1]
            n == Len(r.number)
        IN  /\ r.matched <=> \E e \in 1..Len(s) : IsNumbering(s, 1, e)
            /\ r.matched =>
                  /\ r.number = SubSeq(s, 1, n) /\ IsNumbering(s, 1, n)
                  /\ r.text = WithoutLeadingSpace(s, n + 1)

\* C15 amended: the same with optional whitespace in front of every part after
\* the first; the number is the longest such start of the line.
C15_NumberRecognizedSpacedParts ==
    (pc = "number_matched" /\ IndentRemoved(fn_in[1])) =>
        LET s == fn_in[1]
            r == fn_out[1]
            n == Len(r.number)
        IN  /\ r.matched <=> \E e \in 1..Len(s) : IsSpacedNumbering(s, 1, e)
            /\ r.matched =>
                  /\ r.number = SubSeq(s, 1, n) /\ IsSpacedNumbering(s, 1, n)
                  /\ \A e \in (n + 1)..Len(s) : ~IsSpacedNumbering(s, 1, e)
                  /\ r.text = WithoutLeadingSpace(s, n + 1)

\* C15 witness: "1- a." was matched as the number "1- a." with no text.
C15_Witness ==
    /\ pc = "number_matched"
    /\ fn_in[1] = <<"1", "-", " ", "a", ".">>
    /\ fn_out[1] = [matched |-> TRUE, number |-> <<"1", "-", " ", "a", ".">>, text |-> <<>>]

---------------------------------------------------------------------------
(* Claims about the line formatter *)

\* The number of leading tab characters of a rendered line.
LeadingTabs(str) == LeadingCount(str, 1, {"\t"})

\* The rendered line after its leading tabs.
AfterTabs(str) == SubSeq(str, LeadingTabs(str) + 1, Len(str))

\* d / T rounded to the nearest integer, an exact half rounded up.
RoundHalfUp(d, T) == (2 * d + T) \div (2 * T)

\* The marker the formatter is to render for a list item.
ExpectedMarker(line, bullet_level) ==
    IF line.bullet = <<>> THEN line.number
    ELSE IF out_bullets = <<>> THEN line.bullet
    ELSE <<out_bullets[(bullet_level % Len(out_bullets)) + 1]>>

\* C16: the rendered line has exactly round(max(indent, 0) / tab_size) leading
\* tabs (an exact half rounded up), followed by marker, one space and text for a
\* line with a bullet or a number, and by the text alone otherwise.
C16_TabsRoundedHalfUp ==
    pc = "format_done" =>
        LET line == fn_in[1]
            str == fn_out[1]
        IN  /\ LeadingTabs(str) = RoundHalfUp(Max(line.indent, 0), tab_size)
            /\ AfterTabs(str) =
                  IF line.bullet # <<>> \/ line.number # <<>>
                  THEN ExpectedMarker(line, fn_in[2]) \o <<" ">> \o line.text
                  ELSE line.text

\* C17: a bullet line is rendered with the glyph out_bullets[L mod n] of the
\* configured set (n its size, L the bullet level) in place of its own glyphs,
\* with its own bullet verbatim when no set is configured; a numbered line is
\* rendered with its own number verbatim.
C17_OutBulletByLevel ==
    (pc = "format_done" /\ fn_in[1].is_list) =>
        LET line == fn_in[1]
            L == fn_in[2]
            n == Len(out_bullets)
            rest == AfterTabs(fn_out[1])
            marker == IF line.number # <<>> THEN line.number
                      ELSE IF n = 0 THEN line.bullet
                      ELSE <<out_bullets[(((L % n) + n) % n) + 1]>>
        IN  /\ Len(rest) > Len(marker)
            /\ SubSeq(rest, 1, Len(marker)) = marker
            /\ rest[Len(marker) + 1] = " "

\* C17 witness: with the set "ox" a bullet line "-" of level 3 was rendered
\* with the glyph "x".
C17_Witness ==
    /\ pc = "format_done"
    /\ out_bullets = <<"o", "x">>
    /\ fn_in[2] = 3 /\ fn_in[1].bullet = <<"-">> /\ fn_in[1].text = <<"a">>
    /\ AfterTabs(fn_out[1]) = <<"x", " ", "a">>

\* C18: no rendered line ends with a whitespace character.
C18_NoTrailingWhitespace ==
    pc = "format_done" =>
        (fn_out[1] = <<>> \/ ~IsSpace(fn_out[1][Len(fn_out[1])]))

---------------------------------------------------------------------------
(* Claims about the configuration *)

\* C19: the factory raises TypeError for an argument that is no string, and
\* ValueError for an empty string, for a string with a whitespace character
\* and for a string with an ASCII letter or digit, each time without building
\* a matcher; for every other string it builds the matcher of its characters.
C19_FactoryRejects ==
    pc = "factory_done" =>
        LET a == fn_in[1]
            r == fn_out[1]
            chars == {a.value[k] : k \in 1..Len(a.value)}
            invalid == chars = {} \/ chars \cap Spaces # {} \/ chars \cap AsciiAlnum # {}
        IN  /\ a.type # "str" => (r.raised = "TypeError" /\ ~r.built)
            /\ (a.type = "str" /\ invalid) => (r.raised = "ValueError" /\ ~r.built)
            /\ (a.type = "str" /\ ~invalid) =>
                  (r.raised = "none" /\ r.built /\ r.glyphs = chars)

\* C19 witness: the string "* -" was rejected with ValueError.
C19_Witness ==
    /\ pc = "factory_done"
    /\ fn_in[1] = [type |-> "str", value |-> <<"*", " ", "-">>]
    /\ fn_out[1].raised = "ValueError" /\ ~fn_out[1].built

\* A call of the constructor has ended.
CtorEnded == pc = "ctor_ready" /\ calls > 0

HasSpace(str) == \E k \in 1..Len(str) : IsSpace(str[k])

HasAlnum(str) == \E k \in 1..Len(str) : str[k] \in AsciiAlnum

\* C20 as stated: a construction whose in_bullets is empty, holds a whitespace
\* character or holds a letter or digit ends with a configuration error
\* (ValueError), clean_key gives no key and no instance is returned.
C20_InvalidBulletsRejected ==
    (/\ CtorEnded
     /\ \/ ctor_args.in_bullets = <<>>
        \/ HasSpace(ctor_args.in_bullets)
        \/ HasAlnum(ctor_args.in_bullets)) =>
        /\ ctor_result.raised = "ValueError" /\ ctor_result.instance = 0
        /\ args_key.raised = "ValueError"

\* C20 amended: a construction whose in_bullets holds a letter or digit returns
\* no instance: it ends with the ValueError of __post_init__ unless __new__
\* already failed. An in_bullets that is empty or holds whitespace and no letter
\* or digit is no error: clean_key gives the key of the characters without the
\* whitespace, of IN_BULLETS when none is left, no ValueError is raised, and an
\* instance that is returned is configured with the in_bullets of that key.
C20_OnlyAlnumBulletsRejected ==
    CtorEnded =>
        LET given == ctor_args.in_bullets
            kept == SelectSeq(given, NotSpace)
        IN  /\ args_key.raised = "none"
            /\ args_key.key[1].in_bullets = (IF kept = <<>> THEN IN_BULLETS ELSE kept)
            /\ HasAlnum(given) =>
                  /\ ctor_result.instance = 0
                  /\ ctor_result.raised \in {"ValueError", "AttributeError"}
                  /\ ctor_result.raised = "AttributeError" => slots
            /\ ~HasAlnum(given) =>
                  /\ ctor_result.raised # "ValueError"
                  /\ ctor_result.raised = "none" =>
                        /\ ctor_result.instance # 0
                        /\ instances[ctor_result.instance].state = "ready"
                        /\ instances[ctor_result.instance].in_bullets
                              = args_key.key[1].in_bullets

\* C20 witness: a construction with an in_bullets of one space returned an
\* instance configured with IN_BULLETS.
C20_Witness ==
    /\ CtorEnded
    /\ ctor_args.in_bullets = <<" ">>
    /\ ctor_result.raised = "none"
    /\ instances[ctor_result.instance].in_bullets = IN_BULLETS

---------------------------------------------------------------------------
(* Claims about the stack walk of Pass 2 *)

\* The places input line i is in: a position of a level's queue, or of output.
PlacesOf(i) ==
    UNION {{<<s, k>> : k \in {j \in 1..Len(pending_stack[s].pending_lines) :
                                pending_stack[s].pending_lines[j][2].id = i}} :
           s \in 1..Len(pending_stack)}

EmittedAt(i) == {k \in 1..Len(output) : output[k].id = i}

\* C26: between any two iterations of the stack walk, and when it has returned,
\* every input line is in exactly one place: at one position of the queue of
\* one stack level, or at one position of the output.
C26_LineInOnePlace ==
    pc \in {"p2_loop", "p2_done"} =>
        \A i \in 1..Len(input_lines) :
            Cardinality(PlacesOf(i)) + Cardinality(EmittedAt(i)) = 1

\* C26 witness: one line is emitted and two stack levels hold one line each.
C26_Witness ==
    /\ pc = "p2_loop"
    /\ Len(output) = 1
    /\ Len(pending_stack) = 2
    /\ Len(pending_stack[1].pending_lines) = 1
    /\ Len(pending_stack[2].pending_lines) = 1

\* The level on top of the stack after the iteration.
NewTop == pending_stack'[Len(pending_stack')]

\* C28: without minimize_indents, an iteration that finds the active block of a
\* list level (in_list is Bullet or Number) to be one indented sub-block of the
\* same list kind or of plain text, whose common indent converts to k tabs,
\* schedules it with list_level = the level's list_level + k and with tab indent
\* = the level's tab indent + k, and k >= 1.
C28_DescentAddsTabDelta ==
    [][(/\ pc = "p2_loop" /\ pending_stack # <<>> /\ ~minimize_indents
        /\ ActiveBlock.pending_lines # <<>>
        /\ ActiveBlock.in_list \in {BlockType_Bullet, BlockType_Number}
        /\ ~Split.extracted_is_final /\ Split.common_indent # 0
        /\ Split.block_type \in {BlockType_Indent, ActiveBlock.in_list}) =>
            LET k == round_full_tabs(Split.common_indent, tab_size)
            IN  /\ k >= 1
                /\ pc' = "p2_loop"
                /\ Len(pending_stack') = Len(pending_stack)
                /\ NewTop.list_level = ActiveBlock.list_level + k
                /\ NewTop.in_list = ActiveBlock.in_list
                /\ NewTop.indent_tabs_abs = ActiveBlock.indent_tabs_abs + k
      ]_vars

\* C28 witness: below a bullet level of list_level 0 at 0 tabs, a sub-block of
\* bullets found 2 spaces deep with tab_size 1 is scheduled with list_level 2 at
\* 2 tabs.
C28_Witness ==
    /\ pc = "p2_loop" /\ ~minimize_indents /\ tab_size = 1
    /\ last_step = "descend"
    /\ Len(pending_stack) = 2
    /\ pending_stack[1].in_list = BlockType_Bullet
    /\ pending_stack[1].list_level = 0 /\ pending_stack[1].indent_tabs_abs = 0
    /\ pending_stack[2].in_list = BlockType_Bullet
    /\ pending_stack[2].block_type = BlockType_Bullet
    /\ pending_stack[2].indent_spaces_rel = 2
    /\ pending_stack[2].list_level = 2 /\ pending_stack[2].indent_tabs_abs = 2

\* What an iteration of the stack walk does to the pending work.
EmitsLines == Len(output') > Len(output)

\* The queue of the active block had a non-zero common indent and is scheduled
\* again, whole, with common indent 0.
RemovesCommonIndent ==
    /\ detect_first_line_with_min_indent(ActiveBlock.pending_lines).found
    /\ detect_first_line_with_min_indent(ActiveBlock.pending_lines).min_indent # 0
    /\ Len(pending_stack') = Len(pending_stack)
    /\ Len(NewTop.pending_lines) = Len(ActiveBlock.pending_lines)
    /\ detect_first_line_with_min_indent(NewTop.pending_lines).found
    /\ detect_first_line_with_min_indent(NewTop.pending_lines).min_indent = 0

\* The queue of the active block is replaced by two smaller non-empty queues.
SplitsQueue ==
    /\ Len(pending_stack') = Len(pending_stack) + 1
    /\ LET a == pending_stack'[Len(pending_stack') - 1].pending_lines
           b == NewTop.pending_lines
       IN  /\ a # <<>> /\ b # <<>>
           /\ Len(a) + Len(b) = Len(ActiveBlock.pending_lines)

\* A level whose queue is empty is popped.
PopsEmptyLevel == ActiveBlock.pending_lines = <<>> /\ pending_stack' = Popped

\* C30: every iteration of the stack walk goes on to the next one (or to the
\* return, once the stack is empty) having emitted at least one line, or turned
\* a queue of non-zero common indent into one of common indent 0, or split a
\* queue into two smaller non-empty ones (or popped a level with nothing
\* queued); so the walk ends, with an empty stack.
C30_EveryIterationAdvances ==
    [][(pc = "p2_loop" /\ pending_stack # <<>>) =>
          /\ pc' = "p2_loop"
          /\ EmitsLines \/ RemovesCommonIndent \/ SplitsQueue \/ PopsEmptyLevel
      ]_vars

\* C30 without the failing iterations: an iteration that does not end in the
\* assertion makes one of the four kinds of progress.
C30_CompletedIterationAdvances ==
    [][(pc = "p2_loop" /\ pending_stack # <<>> /\ pc' = "p2_loop") =>
          EmitsLines \/ RemovesCommonIndent \/ SplitsQueue \/ PopsEmptyLevel
      ]_vars

---------------------------------------------------------------------------
(* Claims about the pending run of Pass 1 *)

\* C27: for every list of well-formed lines, at every point of Pass 1 the lines
\* of the pending run all have the same block ID, so every run that is flushed
\* is homogeneous, and the assertion of the flush never ends the call.
C27_PendingRunHomogeneous ==
    /\ pc # "p1_failed"
    /\ \A k \in 1..Len(pending_block) :
          block_id(pending_block[k]) = block_id(pending_block[1])

\* C27 witness: a run of two plain-text lines was flushed as one joined line, and
\* a run of two list items is pending.
C27_Witness ==
    /\ pc = "p1_loop"
    /\ Len(joined_blocks) = 1
    /\ joined_blocks[1].id = 0 /\ Len(joined_blocks[1].text) = 3
    /\ Len(pending_block) = 2
    /\ pending_block[1].is_list /\ pending_block[2].is_list

---------------------------------------------------------------------------
(* Claims about the pipeline *)

\* bullet and number are not both set, and is_list says whether one of them is.
MarkerConsistent(line) ==
    /\ ~(line.bullet # <<>> /\ line.number # <<>>)
    /\ line.is_list <=> (line.bullet # <<>> \/ line.number # <<>>)

AllConsistent(lines) == \A k \in 1..Len(lines) : MarkerConsistent(lines[k])

\* C25: at every point of the pipeline, every line the line parser produced,
\* every line of the output of Pass 1 and every line of the output of Pass 2 has
\* not both a bullet and a number, and has is_list exactly when it has one of
\* them.
C25_MarkersConsistent ==
    /\ AllConsistent(parsed_text)
    /\ AllConsistent(joined_blocks) /\ AllConsistent(p1_result)
    /\ AllConsistent(output)

\* C25 witness: Pass 2 has returned a bullet item and a numbered item that the
\* line parser produced from a text, which also held a plain-text line.
C25_Witness ==
    /\ pc = "p2_done"
    /\ \E k \in 1..Len(output) : output[k].is_list /\ output[k].bullet # <<>>
    /\ \E k \in 1..Len(output) : output[k].is_list /\ output[k].number # <<>>
    /\ \E k \in 1..Len(parsed_text) : ~parsed_text[k].is_list /\ parsed_text[k].text # <<>>

\* The pipeline has ended: an assertion fired, or a result was given.
PipeEnded == pc \in {"p1_failed", "p2_failed", "blocks_done", "pass3_done", "text_done"}

\* Pass 2 was given two plain-text blocks next to each other, one at indent 0
\* and the other 2 spaces deep; deep is the position of the deeper one.
NestedByTwoSpaces(deep) ==
    /\ Len(input_lines) = 2
    /\ \A k \in 1..2 :
          ~input_lines[k].is_list /\ ~input_lines[k].is_empty /\ input_lines[k].text # <<>>
    /\ input_lines[deep].indent = 2
    /\ input_lines[3 - deep].indent = 0

\* C24: with minimize_indents and tab_size 4, when Pass 2 is given a block at
\* indent 0 and a block nested by 2 spaces and the line formatter renders what
\* Pass 2 returns, the rendering is reached and the nested block is rendered
\* with exactly one leading tab, the other block with none.
C24_NestedBlockOneTab ==
    \A deep \in 1..2 :
        (/\ pc \in {"p2_failed", "text_done"}
         /\ minimize_indents /\ tab_size = TAB_SIZE
         /\ NestedByTwoSpaces(deep)) =>
            /\ pc = "text_done"
            /\ LET text == fn_out[Len(fn_out)].lines
               IN  /\ Len(text) = 2
                   /\ LeadingTabs(text[deep]) = 1
                   /\ LeadingTabs(text[3 - deep]) = 0

\* Line i of the text is a list-item header with a text, and line i + 1 is a
\* plain-text line with a text that is indented more.
HeaderWithContinuation(i) ==
    /\ i + 1 <= Len(parsed_text)
    /\ parsed_text[i].is_list /\ parsed_text[i].text # <<>>
    /\ ~parsed_text[i + 1].is_list /\ parsed_text[i + 1].text # <<>>
    /\ parsed_text[i + 1].indent > parsed_text[i].indent

\* C23: (list_with_indent is on by default) when the pipeline with Pass 3 has
\* ended for a text in which a list-item header is directly followed by a
\* more-indented plain-text line, it has ended with lines as its result, and one
\* of them is a list item whose text is the header's text, a single space and
\* the continuation's text.
C23_HeaderAbsorbsContinuation ==
    \A i \in 1..Len(parsed_text) :
        (pc \in {"p1_failed", "p2_failed", "pass3_done"} /\ HeaderWithContinuation(i)) =>
            /\ pc = "pass3_done"
            /\ LET r == fn_out[Len(fn_out)]
               IN  /\ r.kind = "lines"
                   /\ \E k \in 1..Len(r.lines) :
                         /\ r.lines[k].is_list
                         /\ r.lines[k].text
                               = parsed_text[i].text \o <<" ">> \o parsed_text[i + 1].text

\* C22: when the conversion of a text has given a rendered text and that text is
\* converted again by the same instance, the second conversion gives a rendered
\* text too, and it is the same text.
C22_ConvertIdempotent ==
    (Len(fn_in) = 2 /\ pc \in {"p1_failed", "p2_failed", "text_done"}) =>
        /\ pc = "text_done"
        /\ fn_out[2].lines = fn_out[1].lines


---------------------------------------------------------------------------
(* Claims about the pool of instances *)

\* The constructions that returned an instance for one key all returned the
\* same instance.
ReturnedAgree == \A a \in returned : \A b \in returned : a[1] = b[1] => a[2] = b[2]

\* C21: two constructions whose cleaned argument sets are equal return the
\* very same instance, however many constructions with other argument sets
\* happened in between: every construction whose arguments clean to a key
\* returns an instance, and the instances returned for one key are one
\* instance.
C21_SameKeySameInstance ==
    /\ ReturnedAgree
    /\ (pc = "ctor_ready" /\ calls > 0 /\ args_key.raised = "none")
           => (ctor_result.raised = "none" /\ ctor_result.instance # 0)

\* The part of C21 about the calls that do return: they agree on the instance
\* of a key.
C21_ReturnedInstancesAgree == pc = "ctor_ready" => ReturnedAgree


\* The instances of the deque.
Pooled(deque) == {deque[k] : k \in 1..Len(deque)}

\* The instances that leave the deque in the step.
Evicted == Pooled(pool_deque) \ Pooled(pool_deque')

\* The place of the instance in last_used: the later, the more recently the
\* instance was looked up or added.
LastUse(instance) == CHOOSE k \in 1..Len(last_used) : last_used[k] = instance

\* The step is a lookup that returns a pooled instance.
LookupHit == pc = "ctor_ready" /\ pc' = "ctor_init" /\ instances' = instances

\* C29 as stated: when the pool is at its capacity and a new key is added, the
\* instance evicted is the least recently used one: an instance that was
\* returned by a lookup more recently than another pooled instance is never
\* evicted before that other instance.
C29_EvictionIsLeastRecentlyUsed ==
    [][\A x \in Evicted : \A y \in Pooled(pool_deque) \cap Pooled(pool_deque') :
           ~(LastUse(x) > LastUse(y))]_vars

\* C29, amended: the instance that leaves the deque of the pool is the one
\* that was made, and so added, before every other instance of the deque; a
\* lookup that returns a pooled instance leaves the deque and the dict as
\* they are, so it does not put off the eviction of the instance.
C29_EvictionIsFirstInFirstOut ==
    [][/\ \A x \in Evicted : \A y \in Pooled(pool_deque) : x <= y
       /\ LookupHit => (pool_deque' = pool_deque /\ pool_dict' = pool_dict)]_vars

\* An instance has left the full deque although it was looked up after an
\* instance that is still pooled.
C29_Witness ==
    /\ pc = "ctor_ready"
    /\ Len(pool_deque) = PoolLimit
    /\ \E x \in 1..Len(instances) : \E y \in Pooled(pool_deque) :
          /\ x \notin Pooled(pool_deque)
          /\ x \in Pooled(last_used)
          /\ x < y
          /\ LastUse(x) > LastUse(y)

====
